---- MODULE Spec2Model ----
(***************************************************************************)
(* Legal-document citation search of Legal_QA_format:                      *)
(*   src/src/tasks/updated_doc_retriever.py  (CombinedDocumentSearch)      *)
(*   src/src/tasks/doc_retriever.py          (DocRetriever)                *)
(*                                                                         *)
(* A Python str is a sequence of one-character strings.  An absent regex   *)
(* group and the empty string are both the empty sequence <<>>.            *)
(* A score is a fraction [num, den] with den > 0 (exact arithmetic; the    *)
(* rounding of IEEE-754 doubles is not represented).                       *)
(* The letters d-with-stroke and a-with-breve, which the TLA+ lexer         *)
(* rejects inside strings, are written in Telex: "dd", "DD" and "aw".      *)
(***************************************************************************)
EXTENDS Integers, Sequences, FiniteSets, TLC

(***************************************************************************)
(* Characters and str methods                                              *)
(***************************************************************************)
Digits == {"0","1","2","3","4","5","6","7","8","9"}

UpperMap ==
    [A |-> "a", B |-> "b", C |-> "c", D |-> "d", E |-> "e", F |-> "f",
     G |-> "g", H |-> "h", I |-> "i", J |-> "j", K |-> "k", L |-> "l",
     M |-> "m", N |-> "n", O |-> "o", P |-> "p", Q |-> "q", R |-> "r",
     S |-> "s", T |-> "t", U |-> "u", V |-> "v", W |-> "w", X |-> "x",
     Y |-> "y", Z |-> "z"] @@ ("DD" :> "dd")

\* the characters that are neither \s nor \w
Punctuation == {".", ",", "/", "-", ":", "?", "!", "(", ")"}

IsDigit(c) == c \in Digits
IsSpace(c) == c \in {" ", "\n", "\t"}
IsWord(c) == ~IsSpace(c) /\ c \notin Punctuation

lower_char(c) == IF c \in DOMAIN UpperMap THEN UpperMap[c] ELSE c

\* str.lower()
lower(s) == [i \in 1..Len(s) |-> lower_char(s[i])]

\* str.strip()
strip(s) ==
    LET keep == {i \in 1..Len(s) : ~IsSpace(s[i])}
    IN IF keep = {} THEN <<>>
       ELSE LET lo == CHOOSE i \in keep : \A j \in keep : i <= j
                hi == CHOOSE i \in keep : \A j \in keep : i >= j
            IN SubSeq(s, lo, hi)

\* s[p:p+len(sub)] == sub
OccursAt(s, p, sub) ==
    /\ p >= 1
    /\ p + Len(sub) - 1 <= Len(s)
    /\ \A j \in 1..Len(sub) : s[p + j - 1] = sub[j]

\* sub in s
Contains(s, sub) == \E p \in 1..(Len(s) + 1) : OccursAt(s, p, sub)

\* s.replace(sub, "") for a non-empty sub: leftmost non-overlapping occurrences
RECURSIVE RemoveAllFrom(_, _, _)
RemoveAllFrom(s, sub, p) ==
    IF p > Len(s) THEN <<>>
    ELSE IF OccursAt(s, p, sub) THEN RemoveAllFrom(s, sub, p + Len(sub))
    ELSE <<s[p]>> \o RemoveAllFrom(s, sub, p + 1)

RemoveAll(s, sub) == RemoveAllFrom(s, sub, 1)

(***************************************************************************)
(* The tables built by CombinedDocumentSearch.__init__                     *)
(***************************************************************************)
T_luat == <<"l","u","ậ","t">>
T_bo_luat == <<"b","ộ"," ","l","u","ậ","t">>
T_phap_lenh == <<"p","h","á","p"," ","l","ệ","n","h">>
T_nghi_dinh == <<"n","g","h","ị"," ","dd","ị","n","h">>
T_thong_tu == <<"t","h","ô","n","g"," ","t","ư">>
T_lien_tich == <<" ","l","i","ê","n"," ","t","ị","c","h">>
T_nghi_quyet == <<"n","g","h","ị"," ","q","u","y","ế","t">>
T_quyet_dinh == <<"q","u","y","ế","t"," ","dd","ị","n","h">>

LawClass == {T_luat, T_bo_luat, T_phap_lenh}

\* variant: the entry of pháp lệnh lists only itself and luật
equivalent_document_types_one_way(value) ==
    IF value = T_luat THEN {T_luat, T_bo_luat, T_phap_lenh}
    ELSE IF value = T_bo_luat THEN {T_luat, T_bo_luat, T_phap_lenh}
    ELSE IF value = T_phap_lenh THEN {T_luat, T_phap_lenh}
    ELSE {value}

\* self.equivalent_document_types, with dict.get(value, [value])
equivalent_document_types(value) ==
    IF value = T_luat THEN {T_luat, T_bo_luat, T_phap_lenh}
    ELSE IF value = T_bo_luat THEN {T_luat, T_bo_luat, T_phap_lenh}
    ELSE IF value = T_phap_lenh THEN {T_luat, T_bo_luat, T_phap_lenh}
    ELSE {value}

\* self.issuer_mapping, in insertion order: <<body, abbreviation>>
issuer_mapping ==
    << <<<<"b","ộ"," ","c","ô","n","g"," ","t","h","ư","ơ","n","g">>,
         <<"b","c","t">>>>,
       <<<<"b","ộ"," ","n","ộ","i"," ","v","ụ">>,
         <<"b","n","v">>>>,
       <<<<"b","ộ"," ","g","i","á","o"," ","d","ụ","c">>,
         <<"b","g","d","d","t">>>>,
       <<<<"b","ộ"," ","t","à","i"," ","c","h","í","n","h">>,
         <<"b","t","c">>>>,
       <<<<"b","ộ"," ","q","u","ố","c"," ","p","h","ò","n","g">>,
         <<"b","q","p">>>>,
       <<<<"b","ộ"," ","c","ô","n","g"," ","a","n">>,
         <<"b","c","a">>>>,
       <<<<"b","ộ"," ","y"," ","t","ế">>,
         <<"b","y","t">>>>,
       <<<<"b","ộ"," ","t","h","ô","n","g"," ","t","i","n">>,
         <<"b","t","t","t","t">>>>,
       <<<<"b","ộ"," ","n","g","o","ạ","i"," ","g","i","a","o">>,
         <<"b","n","g">>>>,
       <<<<"b","ộ"," ","t","ư"," ","p","h","á","p">>,
         <<"b","t","p">>>>,
       <<<<"b","ộ"," ","k","ế"," ","h","o","ạ","c","h">>,
         <<"b","k","h","d","t">>>>,
       <<<<"b","ộ"," ","n","ô","n","g"," ","n","g","h","i","ệ","p">>,
         <<"b","n","n","p","t","n","t">>>>,
       <<<<"b","ộ"," ","g","i","a","o"," ","t","h","ô","n","g">>,
         <<"b","g","t","v","t">>>>,
       <<<<"b","ộ"," ","x","â","y"," ","d","ự","n","g">>,
         <<"b","x","d">>>>,
       <<<<"b","ộ"," ","t","à","i"," ","n","g","u","y","ê","n">>,
         <<"b","t","n","m","t">>>>,
       <<<<"b","ộ"," ","l","a","o"," ","dd","ộ","n","g">>,
         <<"b","l","d","t","b","x","h">>>>,
       <<<<"b","ộ"," ","v","aw","n"," ","h","ó","a">>,
         <<"b","v","h","t","t","d","l">>>>,
       <<<<"b","ộ"," ","k","h","o","a"," ","h","ọ","c">>,
         <<"b","k","h","c","n">>>>,
       <<<<"n","g","â","n"," ","h","à","n","g"," ","n","h","à"," ","n","ư","ớ","c">>,
         <<"n","h","n","n">>>> >>

(***************************************************************************)
(* The mention pattern of extract_document_mentions (re.IGNORECASE)        *)
(***************************************************************************)
\* a literal of the pattern occurs at p, letter case ignored
LiteralAt(s, p, lit) ==
    /\ p + Len(lit) - 1 <= Len(s)
    /\ \A j \in 1..Len(lit) : lower_char(s[p + j - 1]) = lit[j]

\* \s+ (greedy): the number of whitespace characters from p on
WsRun(s, p) ==
    CHOOSE k \in 0..(Len(s) - p + 1) :
        /\ \A j \in p..(p + k - 1) : IsSpace(s[j])
        /\ (p + k > Len(s) \/ ~IsSpace(s[p + k]))

\* \d{1,max} (greedy): the number of digits from p on, at most max
DigitRun(s, p, max) ==
    CHOOSE k \in 0..max :
        /\ p + k - 1 <= Len(s)
        /\ \A j \in p..(p + k - 1) : IsDigit(s[j])
        /\ (k = max \/ p + k > Len(s) \/ ~IsDigit(s[p + k]))

\* (?P<document_type>Luật|Bộ luật|Pháp lệnh|Nghị định|Thông tư(?: liên tịch)?
\*                   |Nghị quyết|Quyết định): the position after it, 0 if none
document_type_end(s, p) ==
    IF LiteralAt(s, p, T_luat) THEN p + Len(T_luat)
    ELSE IF LiteralAt(s, p, T_bo_luat) THEN p + Len(T_bo_luat)
    ELSE IF LiteralAt(s, p, T_phap_lenh) THEN p + Len(T_phap_lenh)
    ELSE IF LiteralAt(s, p, T_nghi_dinh) THEN p + Len(T_nghi_dinh)
    ELSE IF LiteralAt(s, p, T_thong_tu)
         THEN IF LiteralAt(s, p + Len(T_thong_tu), T_lien_tich)
              THEN p + Len(T_thong_tu) + Len(T_lien_tich)
              ELSE p + Len(T_thong_tu)
    ELSE IF LiteralAt(s, p, T_nghi_quyet) THEN p + Len(T_nghi_quyet)
    ELSE IF LiteralAt(s, p, T_quyet_dinh) THEN p + Len(T_quyet_dinh)
    ELSE 0

\* (?P<document_subtype>Luật|Bộ luật|Pháp lệnh): the position after it, 0 if none
document_subtype_end(s, p) ==
    IF LiteralAt(s, p, T_luat) THEN p + Len(T_luat)
    ELSE IF LiteralAt(s, p, T_bo_luat) THEN p + Len(T_bo_luat)
    ELSE IF LiteralAt(s, p, T_phap_lenh) THEN p + Len(T_phap_lenh)
    ELSE 0

NoMatch == [found |-> FALSE]

\* (?:\s+(?P<document_number>\d{1,4}))? at e: the position after it
document_number_end(s, e) ==
    IF WsRun(s, e) >= 1 /\ DigitRun(s, e + WsRun(s, e), 4) >= 1
    THEN e + WsRun(s, e) + DigitRun(s, e + WsRun(s, e), 4)
    ELSE e

\* (?:\s+(?P<document_subtype>...))? at e: the position after it
subtype_group_end(s, e) ==
    IF WsRun(s, e) >= 1 /\ document_subtype_end(s, e + WsRun(s, e)) # 0
    THEN document_subtype_end(s, e + WsRun(s, e))
    ELSE e

\* (?:\s+(?P<extra_info>.+?))? at e: the whitespace that \s+ keeps so that
\* one character other than a newline follows; the lazy .+? takes that one
\* character, because the rest of the pattern can match the empty string
extra_info_spaces(s, e) ==
    {k \in 1..WsRun(s, e) : e + k <= Len(s) /\ s[e + k] # "\n"}

extra_info_end(s, e) ==
    IF extra_info_spaces(s, e) = {} THEN e
    ELSE e + 1 + CHOOSE k \in extra_info_spaces(s, e) :
                     \A j \in extra_info_spaces(s, e) : k >= j

\* (?:\s+(?P<issue_year>\d{4}))? at e: the position after it
issue_year_end(s, e) ==
    IF WsRun(s, e) >= 1 /\ DigitRun(s, e + WsRun(s, e), 4) = 4
    THEN e + WsRun(s, e) + 4
    ELSE e

\* the match object, from the positions after each group
match_groups(s, p, e1, e2, e3, e4, e5) ==
    [found |-> TRUE,
     start |-> p,
     stop |-> e5,
     group0 |-> SubSeq(s, p, e5 - 1),
     document_type |-> SubSeq(s, p, e1 - 1),
     document_number |->
         IF e2 > e1 THEN SubSeq(s, e1 + WsRun(s, e1), e2 - 1) ELSE <<>>,
     document_subtype |->
         IF e3 > e2 THEN SubSeq(s, e2 + WsRun(s, e2), e3 - 1) ELSE <<>>,
     extra_info |-> IF e4 > e3 THEN <<s[e4 - 1]>> ELSE <<>>,
     issue_year |-> IF e5 > e4 THEN SubSeq(s, e5 - 4, e5 - 1) ELSE <<>>]

match_from_extra(s, p, e1, e2, e3, e4) ==
    match_groups(s, p, e1, e2, e3, e4, issue_year_end(s, e4))

match_from_subtype(s, p, e1, e2, e3) ==
    match_from_extra(s, p, e1, e2, e3, extra_info_end(s, e3))

match_from_number(s, p, e1, e2) ==
    match_from_subtype(s, p, e1, e2, subtype_group_end(s, e2))

match_from_type(s, p, e1) ==
    IF e1 = 0 THEN NoMatch
    ELSE match_from_number(s, p, e1, document_number_end(s, e1))

\* pattern.match at position p.  Every group after document_type is optional
\* and the pattern ends after the last one, so each group takes its first
\* (greedy) alternative and nothing is given back.
pattern_match(s, p) == match_from_type(s, p, document_type_end(s, p))

\* pattern.finditer(sentence): leftmost, non-overlapping matches
RECURSIVE finditer(_, _)
finditer_next(s, p, m) ==
    IF m.found THEN <<m>> \o finditer(s, m.stop) ELSE finditer(s, p + 1)

finditer(s, p) ==
    IF p > Len(s) THEN <<>> ELSE finditer_next(s, p, pattern_match(s, p))

(***************************************************************************)
(* extract_document_mentions                                               *)
(***************************************************************************)
SentenceEnd == {".", "?", "!"}

\* underthesea.sent_tokenize: a sentence ends with a terminator that is
\* followed by whitespace, or with the text
RECURSIVE sentences_from(_, _)
sentences_from(text, p) ==
    IF p > Len(text) THEN <<>>
    ELSE LET ends == {i \in p..(Len(text) - 1) :
                          text[i] \in SentenceEnd /\ IsSpace(text[i + 1])}
         IN IF ends = {} THEN <<SubSeq(text, p, Len(text))>>
            ELSE LET e == CHOOSE i \in ends : \A j \in ends : i <= j
                 IN <<SubSeq(text, p, e)>> \o sentences_from(text, e + 1)

sent_tokenize(text) == sentences_from(text, 1)

\* the loop over self.issuer_mapping.items(), from entry i on
RECURSIVE relocate_issuer(_, _, _)
relocate_issuer(i, issuer_body, extra_info) ==
    IF i > Len(issuer_mapping)
    THEN [issuer_body |-> issuer_body, extra_info |-> extra_info]
    ELSE LET body == issuer_mapping[i][1]
             abbrev == issuer_mapping[i][2]
         IN IF Contains(lower(extra_info), body)
            THEN relocate_issuer(i + 1, abbrev,
                                 strip(RemoveAll(extra_info, body)))
            ELSE relocate_issuer(i + 1, issuer_body, extra_info)

\* the body of the loop over pattern.finditer(sentence): one mention dict
mention_dict(match) ==
    LET document_type == lower(strip(match.document_type))
        document_number == strip(match.document_number)
        document_subtype == lower(strip(match.document_subtype))
        issue_year == strip(match.issue_year)
        rel == relocate_issuer(1, <<>>, strip(match.extra_info))
    IN [mention |-> strip(match.group0),
        document_type |->
            IF document_subtype # <<>>
            THEN document_type \o <<" ">> \o document_subtype
            ELSE document_type,
        document_number |-> document_number,
        issue_year |-> issue_year,
        issuer_body |-> rel.issuer_body,
        extra_info |-> rel.extra_info]

sentence_mentions(sentence) ==
    LET ms == finditer(strip(sentence), 1)
    IN [i \in 1..Len(ms) |-> mention_dict(ms[i])]

RECURSIVE mentions_from(_, _)
mentions_from(sentences, i) ==
    IF i > Len(sentences) THEN <<>>
    ELSE sentence_mentions(sentences[i]) \o mentions_from(sentences, i + 1)

\* variant: the pattern is applied to the whole text, not per sentence
extract_document_mentions_whole_text(text) == sentence_mentions(text)

extract_document_mentions(text) == mentions_from(sent_tokenize(text), 1)

(***************************************************************************)
(* Arithmetic on fractions and sums                                        *)
(***************************************************************************)
Frac(n, d) == [num |-> n, den |-> d]
FracAdd(a, b) == Frac(a.num * b.den + b.num * a.den, a.den * b.den)
FracGE(a, b) == a.num * b.den >= b.num * a.den
FracGT(a, b) == a.num * b.den > b.num * a.den
FracEQ(a, b) == a.num * b.den = b.num * a.den

RECURSIVE SumOver(_, _)
SumOver(f, S) ==
    IF S = {} THEN 0
    ELSE LET x == CHOOSE y \in S : TRUE
         IN f[x] + SumOver(f, S \ {x})

(***************************************************************************)
(* Python floats: IEEE-754 binary64 with round-to-nearest-even.  A float   *)
(* is [m, e] with value m * 2^e and 2^52 <= m < 2^53 (m = 0 for 0.0); the  *)
(* integer m is kept as [hi, lo] with value hi * 2^30 + lo, lo < 2^30      *)
(***************************************************************************)
Limb == 2^30
Big(hi, lo) == [hi |-> hi, lo |-> lo]
BigZero == Big(0, 0)
BigOne == Big(0, 1)
Two52 == Big(2^22, 0)
Two53 == Big(2^23, 0)

BigAdd(a, b) ==
    Big(a.hi + b.hi + (a.lo + b.lo) \div Limb, (a.lo + b.lo) % Limb)

\* a - b for a >= b
BigSub(a, b) ==
    IF a.lo >= b.lo THEN Big(a.hi - b.hi, a.lo - b.lo)
    ELSE Big(a.hi - b.hi - 1, (a.lo - b.lo) + Limb)

BigGE(a, b) == a.hi > b.hi \/ (a.hi = b.hi /\ a.lo >= b.lo)
BigHalf(a) == Big(a.hi \div 2, a.lo \div 2 + (a.hi % 2) * (Limb \div 2))
BigOdd(a) == a.lo % 2 = 1

\* a * 2^k
RECURSIVE BigShift(_, _)
BigShift(a, k) == IF k = 0 THEN a ELSE BigShift(BigAdd(a, a), k - 1)

Float(m, e) == [m |-> m, e |-> e]
FloatZero == Float(BigZero, 0)

\* the double nearest to m * 2^e (+ a fraction of 2^e told by guard and
\* sticky), for m >= 2^52: ties go to the even mantissa
RECURSIVE round_nearest_even(_, _, _, _)
round_nearest_even(m, e, guard, sticky) ==
    IF BigGE(m, Two53)
    THEN round_nearest_even(BigHalf(m), e + 1, BigOdd(m), sticky \/ guard)
    ELSE IF guard /\ (sticky \/ BigOdd(m))
    THEN (IF BigGE(BigAdd(m, BigOne), Two53)
          THEN Float(Two52, e + 1)
          ELSE Float(BigAdd(m, BigOne), e))
    ELSE Float(m, e)

\* float(n) for an int n < 2^30
RECURSIVE normalize(_, _)
normalize(m, e) ==
    IF BigGE(m, Two52) THEN Float(m, e) ELSE normalize(BigAdd(m, m), e - 1)

from_int(n) == IF n = 0 THEN FloatZero ELSE normalize(Big(0, n), 0)

\* n steps of the long division by b: from [q |-> 0, r |-> a] with
\* a < 2 * b, each step appends the next quotient bit to q and doubles the
\* remainder r; at the end q holds the first n bits of a / b and r tells
\* whether the division left a remainder
RECURSIVE long_division(_, _, _)
long_division(s, b, n) ==
    IF n = 0 THEN s
    ELSE IF BigGE(s.r, b)
    THEN long_division([q |-> BigAdd(BigAdd(s.q, s.q), BigOne),
                        r |-> BigAdd(BigSub(s.r, b), BigSub(s.r, b))],
                       b, n - 1)
    ELSE long_division([q |-> BigAdd(s.q, s.q), r |-> BigAdd(s.r, s.r)],
                       b, n - 1)

\* x / y for y # 0.0
float_div(x, y) ==
    IF x.m = BigZero THEN FloatZero
    ELSE round_nearest_even(
            long_division([q |-> BigZero, r |-> x.m], y.m, 55).q,
            x.e - y.e - 54, FALSE,
            long_division([q |-> BigZero, r |-> x.m], y.m, 55).r # BigZero)

\* x + y for x, y >= 0.0
float_add(x, y) ==
    IF x.m = BigZero THEN y
    ELSE IF y.m = BigZero THEN x
    ELSE round_nearest_even(
            BigAdd(BigShift(x.m, x.e - (IF x.e < y.e THEN x.e ELSE y.e)),
                   BigShift(y.m, y.e - (IF x.e < y.e THEN x.e ELSE y.e))),
            IF x.e < y.e THEN x.e ELSE y.e, FALSE, FALSE)

(***************************************************************************)
(* compute_similarity: TfidfVectorizer fitted on the two strings, cosine   *)
(***************************************************************************)
\* the similarity is kept in units of 1/SimScale, rounded down
SimScale == 100

\* smoothed idf of a term of one of the two strings: 1 + ln(3/2); its
\* square 1.9753 is taken as IdfSqNum / IdfSqDen.  A shared term has idf 1.
IdfSqNum == 79
IdfSqDen == 40

\* \w+ from p on
WordRun(s, p) ==
    CHOOSE k \in 0..(Len(s) - p + 1) :
        /\ \A j \in p..(p + k - 1) : IsWord(s[j])
        /\ (p + k > Len(s) \/ ~IsWord(s[p + k]))

\* the default token_pattern (?u)\b\w\w+\b: words of two or more characters
RECURSIVE tokens_from(_, _)
tokens_from(s, p) ==
    IF p > Len(s) THEN <<>>
    ELSE IF ~IsWord(s[p]) THEN tokens_from(s, p + 1)
    ELSE LET n == WordRun(s, p)
         IN (IF n >= 2 THEN <<SubSeq(s, p, p + n - 1)>> ELSE <<>>)
                \o tokens_from(s, p + n)

tokenize(s) == tokens_from(s, 1)

Terms(tokens) == {tokens[i] : i \in 1..Len(tokens)}
TermCount(tokens, t) == Cardinality({i \in 1..Len(tokens) : tokens[i] = t})

\* fit() raises ValueError("empty vocabulary") when neither string has a token
empty_vocabulary(query_text, document_text) ==
    tokenize(query_text) = <<>> /\ tokenize(document_text) = <<>>

\* IdfSqDen times the squared norm of the tf-idf vector of `own`
NormSq(own, other) ==
    LET shared == Terms(own) \cap Terms(other)
        single == Terms(own) \ Terms(other)
        sq == [t \in Terms(own) |-> TermCount(own, t) * TermCount(own, t)]
    IN IdfSqDen * SumOver(sq, shared) + IdfSqNum * SumOver(sq, single)

compute_similarity(query_text, document_text) ==
    LET q == tokenize(query_text)
        d == tokenize(document_text)
        shared == Terms(q) \cap Terms(d)
        dot == SumOver([t \in shared |-> TermCount(q, t) * TermCount(d, t)],
                       shared)
        nq == NormSq(q, d)
        nd == NormSq(d, q)
    IN IF dot = 0 THEN 0
       ELSE CHOOSE x \in 0..SimScale :
              /\ x * x * nq * nd
                    <= SimScale * SimScale * IdfSqDen * IdfSqDen * dot * dot
              /\ \/ x = SimScale
                 \/ (x + 1) * (x + 1) * nq * nd
                      > SimScale * SimScale * IdfSqDen * IdfSqDen * dot * dot

(***************************************************************************)
(* The registry: a table is [columns, numeric, rows]; `numeric` are the    *)
(* columns that pandas.read_csv parsed with a numeric dtype; a row maps    *)
(* every column name to its value                                          *)
(***************************************************************************)
AllColumns == {"Full Name", "Document_ID", "document_type", "document_number",
               "issuer_body", "issue_year"}

\* text_columns of load_documents
text_columns == {"document_number", "document_type", "issuer_body",
                 "Full Name", "Document_ID"}

\* load_documents: astype(str).str.lower().str.strip() on the text columns
\* that exist; the other columns stay as read
load_documents(csv) ==
    [columns |-> csv.columns,
     numeric |-> csv.numeric \ text_columns,
     rows |-> [r \in 1..Len(csv.rows) |->
                 [c \in AllColumns |->
                    IF c \in text_columns /\ c \in csv.columns
                    THEN strip(lower(csv.rows[r][c]))
                    ELSE csv.rows[r][c]]]]

(***************************************************************************)
(* CombinedDocumentSearch.match_documents                                  *)
(***************************************************************************)
Properties == <<"document_type", "document_number", "issue_year",
                "issuer_body", "extra_info">>
Structured == {"document_type", "document_number", "issue_year", "issuer_body"}

\* reliability_factors, in tenths
reliability_factors ==
    [document_type |-> 8, document_number |-> 9, issue_year |-> 7,
     issuer_body |-> 8, extra_info |-> 6]

\* base_confidences[prop] * reliability_factors[prop], in tenths
confidence_scores(value) ==
    [prop \in DOMAIN reliability_factors |->
        IF value[prop] # <<>> THEN reliability_factors[prop] ELSE 0]

total_confidence(value) ==
    SumOver(confidence_scores(value), DOMAIN reliability_factors)

\* the properties whose base confidence is 1.0
present_properties(value) ==
    {prop \in DOMAIN reliability_factors : value[prop] # <<>>}

\* the literals 0.8, 0.9, 0.7, 0.8, 0.6 as doubles
float_reliability ==
    [prop \in DOMAIN reliability_factors |->
        float_div(from_int(reliability_factors[prop]), from_int(10))]

\* confidence = base_confidences[prop] * reliability_factors[prop]:
\* 1.0 * x is x and 0.0 * x is 0.0, both exact
float_confidence(present, prop) ==
    IF prop \in present THEN float_reliability[prop] ELSE FloatZero

\* total_confidence after `total_confidence += confidence` for the first i
\* properties, in the order of the dict
RECURSIVE float_total(_, _)
float_total(present, i) ==
    IF i = 0 THEN FloatZero
    ELSE float_add(float_total(present, i - 1),
                   float_confidence(present, Properties[i]))

\* the five doubles confidence / total for a total confidence > 0
float_quotients(present, total) ==
    [document_type |-> float_div(float_confidence(present, "document_type"), total),
     document_number |-> float_div(float_confidence(present, "document_number"), total),
     issue_year |-> float_div(float_confidence(present, "issue_year"), total),
     issuer_body |-> float_div(float_confidence(present, "issuer_body"), total),
     extra_info |-> float_div(float_confidence(present, "extra_info"), total)]

float_zeros ==
    [document_type |-> FloatZero, document_number |-> FloatZero,
     issue_year |-> FloatZero, issuer_body |-> FloatZero,
     extra_info |-> FloatZero]

\* the weights for every set of present properties in S, given the total
\* confidence of each set: 0.0 when the total is not > 0
RECURSIVE weight_table(_, _)
RECURSIVE weight_table_from(_, _, _)
weight_table(S, total) ==
    IF S = {} THEN [present \in {} |-> float_zeros]
    ELSE weight_table_from(CHOOSE present \in S : TRUE, S, total)

weight_table_from(present, S, total) ==
    (present :> IF present = {} THEN float_zeros
                ELSE float_quotients(present, total[present]))
        @@ weight_table(S \ {present}, total)

\* variant: the doubles confidence / (total confidence of all five fields)
float_weights_fixed_total ==
    weight_table(SUBSET DOMAIN reliability_factors,
                 [present \in SUBSET DOMAIN reliability_factors |->
                     float_total(DOMAIN reliability_factors, Len(Properties))])

\* the doubles confidence_scores[prop] / total_confidence, for every set of
\* present properties
float_weights ==
    weight_table(SUBSET DOMAIN reliability_factors,
                 [present \in SUBSET DOMAIN reliability_factors |->
                     float_total(present, Len(Properties))])

\* the quotients confidence_scores[prop] / total_confidence as real numbers
\* (0 when the total is not > 0)
weight_quotients(value) ==
    [prop \in DOMAIN reliability_factors |->
        IF total_confidence(value) > 0
        THEN Frac(confidence_scores(value)[prop], total_confidence(value))
        ELSE Frac(0, 1)]

\* variant: normalised by the sum of all reliability factors instead of the
\* total confidence of the present fields
dynamic_weights_fixed_total(value) ==
    [prop \in DOMAIN reliability_factors |->
        IF total_confidence(value) > 0
        THEN [num |-> confidence_scores(value)[prop],
              den |-> SumOver(reliability_factors, DOMAIN reliability_factors),
              float |-> float_weights_fixed_total[present_properties(value)][prop]]
        ELSE [num |-> 0, den |-> 1, float |-> FloatZero]]

\* dynamic_weights[prop] = confidence_scores[prop] / total_confidence, or
\* 0.0: num / den is the quotient as a real number, float the double that
\* the division stores
dynamic_weights(value) ==
    [prop \in DOMAIN reliability_factors |->
        [num |-> weight_quotients(value)[prop].num,
         den |-> weight_quotients(value)[prop].den,
         float |-> float_weights[present_properties(value)][prop]]]

\* variant: only the document type is compared
property_match_type_only(prop, v, doc) ==
    IF prop = "document_type"
    THEN lower(doc["document_type"]) \in equivalent_document_types(lower(v))
    ELSE TRUE

\* the comparison of one structured property of the mention with a row
\* (the same test builds the prefilter condition and the match flag)
property_match(prop, v, doc) ==
    IF prop = "document_type"
    THEN lower(doc["document_type"]) \in equivalent_document_types(lower(v))
    ELSE lower(doc[prop]) = lower(v)

\* self.documents[prop].str raises KeyError for a missing column and
\* AttributeError for a column that does not hold strings
column_raises(documents, prop) ==
    prop \notin documents.columns \/ prop \in documents.numeric

\* variant: no prefilter, every registry row is scored
potential_matches_unfiltered(documents, value) == documents.rows

\* variant: a row is kept when it agrees on some present structured field
potential_matches_any_field(documents, value) ==
    SelectSeq(documents.rows,
              LAMBDA doc : \E prop \in Structured :
                  value[prop] # <<>> /\ property_match(prop, value[prop], doc))

\* variant: a structured field that the mention lacks excludes every row
potential_matches_all_fields(documents, value) ==
    SelectSeq(documents.rows,
              LAMBDA doc : \A prop \in Structured :
                  value[prop] # <<>> /\ property_match(prop, value[prop], doc))

\* self.documents[combined_condition], in registry order
potential_matches(documents, value) ==
    SelectSeq(documents.rows,
              LAMBDA doc : \A prop \in Structured :
                  value[prop] # <<>> => property_match(prop, value[prop], doc))

\* match_score of one row in real arithmetic, as a fraction over
\* SimScale * total_confidence
match_score(value, doc) ==
    LET w == weight_quotients(value)
        signed == [prop \in Structured |->
                     IF value[prop] = <<>> THEN 0
                     ELSE IF property_match(prop, value[prop], doc)
                          THEN w[prop].num
                          ELSE 0 - w[prop].num]
        similarity == IF value["extra_info"] = <<>> THEN 0
                      ELSE compute_similarity(lower(value["extra_info"]),
                                              lower(doc["Full Name"]))
    IN Frac(SimScale * SumOver(signed, Structured)
                + w["extra_info"].num * similarity,
            SimScale * w["extra_info"].den)

\* the double that the scoring loop accumulates for a row on which every
\* present structured field matches: 0.0 + the weights in loop order
float_structured_score(value) ==
    LET w(prop) == IF value[prop] = <<>> THEN FloatZero
                   ELSE float_weights[present_properties(value)][prop]
    IN float_add(float_add(float_add(float_add(FloatZero, w("document_type")),
                                     w("document_number")),
                           w("issue_year")),
                 w("issuer_body"))

\* variant: a sort that puts a later element before the earlier elements of
\* the same score
RECURSIVE sorted_by_score_unstable(_)
sorted_by_score_unstable(list) ==
    IF list = <<>> THEN <<>>
    ELSE LET n == Len(list)
             head == sorted_by_score_unstable(SubSeq(list, 1, n - 1))
             x == list[n]
             k == Cardinality({j \in 1..Len(head) : FracGT(head[j][3], x[3])})
         IN SubSeq(head, 1, k) \o <<x>> \o SubSeq(head, k + 1, Len(head))

\* sorted(list, key=lambda x: x[2], reverse=True): stable
RECURSIVE sorted_by_score(_)
sorted_by_score(list) ==
    IF list = <<>> THEN <<>>
    ELSE LET n == Len(list)
             head == sorted_by_score(SubSeq(list, 1, n - 1))
             x == list[n]
             k == Cardinality({j \in 1..Len(head) : FracGE(head[j][3], x[3])})
         IN SubSeq(head, 1, k) \o <<x>> \o SubSeq(head, k + 1, Len(head))

\* list[:top_n]
take(list, top_n) == SubSeq(list, 1, IF Len(list) < top_n THEN Len(list) ELSE top_n)

\* variant: every prefiltered row is kept, whatever its score
scored_matches_without_cutoff(documents, value, cutoff) ==
    LET pot == potential_matches(documents, value)
    IN [j \in 1..Len(pot) |->
          <<pot[j]["Full Name"], pot[j]["Document_ID"], match_score(value, pot[j])>>]

\* the rows that reach the cutoff, as (Full Name, Document_ID, score)
scored_matches(documents, value, cutoff) ==
    LET pot == potential_matches(documents, value)
        kept == SelectSeq(pot, LAMBDA doc : FracGE(match_score(value, doc), cutoff))
    IN [j \in 1..Len(kept) |->
          <<kept[j]["Full Name"], kept[j]["Document_ID"], match_score(value, kept[j])>>]

\* an exception leaves match_documents: a column that a present property
\* needs, or that the scoring loop reads, is unusable, or the vectorizer
\* has nothing to fit
match_documents_raises(documents, value, cutoff) ==
    \/ \E prop \in Structured :
          value[prop] # <<>> /\ column_raises(documents, prop)
    \/ \E j \in 1..Len(potential_matches(documents, value)) :
          LET doc == potential_matches(documents, value)[j]
          IN \/ /\ value["extra_info"] # <<>>
                /\ \/ column_raises(documents, "Full Name")
                   \/ empty_vocabulary(lower(value["extra_info"]),
                                       lower(doc["Full Name"]))
             \/ /\ FracGE(match_score(value, doc), cutoff)
                /\ \/ "Full Name" \notin documents.columns
                   \/ "Document_ID" \notin documents.columns

\* variant: the weights are divided by the total confidence without the
\* test `total_confidence > 0`, so a mention without fields raises
match_documents_unguarded_division(documents, value, top_n, cutoff) ==
    IF total_confidence(value) = 0 \/ match_documents_raises(documents, value, cutoff)
    THEN [raised |-> TRUE, list |-> <<>>]
    ELSE [raised |-> FALSE,
          list |-> take(sorted_by_score(scored_matches(documents, value, cutoff)),
                        top_n)]

\* match_documents: the list stored under the key `mention`
match_documents(documents, value, top_n, cutoff) ==
    IF match_documents_raises(documents, value, cutoff)
    THEN [raised |-> TRUE, list |-> <<>>]
    ELSE [raised |-> FALSE,
          list |-> take(sorted_by_score(scored_matches(documents, value, cutoff)),
                        top_n)]

(***************************************************************************)
(* doc_retriever.py: text utilities and the patterns of                    *)
(* match_documents_comprehensive                                           *)
(***************************************************************************)
\* str.split(): the maximal runs of non-whitespace characters
RECURSIVE split_from(_, _)
split_from(s, p) ==
    IF p > Len(s) THEN <<>>
    ELSE IF IsSpace(s[p]) THEN split_from(s, p + 1)
    ELSE LET n == CHOOSE k \in 1..(Len(s) - p + 1) :
                     /\ \A j \in p..(p + k - 1) : ~IsSpace(s[j])
                     /\ (p + k > Len(s) \/ IsSpace(s[p + k]))
         IN <<SubSeq(s, p, p + n - 1)>> \o split_from(s, p + n)

split(s) == split_from(s, 1)

\* ' '.join(words)
RECURSIVE join(_)
join(words) ==
    IF words = <<>> THEN <<>>
    ELSE IF Len(words) = 1 THEN words[1]
    ELSE words[1] \o <<" ">> \o join(Tail(words))

\* normalize_text: ' '.join(text.lower().split())
normalize_text(text) == join(split(lower(text)))

\* underthesea.word_tokenize, taken as the whitespace-separated words
word_tokenize(text) == split(text)

\* extract_trigrams: ' '.join(tokens[i:i+3]) for i in range(len(tokens) - 2)
extract_trigrams(tokens) ==
    [i \in 1..(IF Len(tokens) >= 2 THEN Len(tokens) - 2 ELSE 0) |->
        join(SubSeq(tokens, i, i + 2))]

\* all digits from p on
DigitsFrom(s, p) ==
    CHOOSE k \in 0..(Len(s) - p + 1) :
        /\ \A j \in p..(p + k - 1) : IsDigit(s[j])
        /\ (p + k > Len(s) \/ ~IsDigit(s[p + k]))

AsciiLetters == DOMAIN UpperMap \cup {UpperMap[c] : c \in DOMAIN UpperMap}

\* [\w\-] of partial_pattern; [A-Za-z\-] of id_pattern when ascii_only
IsSuffixChar(c, ascii_only) ==
    IF ascii_only THEN (c \in AsciiLetters /\ c \notin {"DD", "dd"}) \/ c = "-"
    ELSE IsWord(c) \/ c = "-"

\* the suffix characters from p on, as many as there are
SuffixRun(s, p, ascii_only) ==
    CHOOSE k \in 0..(Len(s) - p + 1) :
        /\ \A j \in p..(p + k - 1) : IsSuffixChar(s[j], ascii_only)
        /\ (p + k > Len(s) \/ ~IsSuffixChar(s[p + k], ascii_only))

\* (?:/suffix+)? at e: the position after it
id_suffix_end(s, e, ascii_only) ==
    IF e <= Len(s) /\ s[e] = "/" /\ SuffixRun(s, e + 1, ascii_only) >= 1
    THEN e + 1 + SuffixRun(s, e + 1, ascii_only)
    ELSE e

\* \d{1,3}/\d{4}(?:/suffix+)? at p: the position after it, 0 if none
partial_id_end(s, p, ascii_only) ==
    IF /\ DigitsFrom(s, p) >= 1
       /\ DigitsFrom(s, p) <= 3
       /\ p + DigitsFrom(s, p) <= Len(s)
       /\ s[p + DigitsFrom(s, p)] = "/"
       /\ DigitRun(s, p + DigitsFrom(s, p) + 1, 4) = 4
    THEN id_suffix_end(s, p + DigitsFrom(s, p) + 5, ascii_only)
    ELSE 0

\* \s+\d{1,3}/\d{4}(?:/[\w\-]+)? after a keyword that ends before e
mention_tail_end(s, e) ==
    IF e = 0 \/ WsRun(s, e) = 0 THEN 0
    ELSE partial_id_end(s, e + WsRun(s, e), FALSE)

partial_match_groups(s, p, e0, stop) ==
    IF stop = 0 THEN NoMatch
    ELSE [found |-> TRUE, start |-> p, stop |-> stop,
          group0 |-> SubSeq(s, p, stop - 1),
          group1 |-> SubSeq(s, p, e0 - 1)]

\* Thông tư(?: liên tịch)? gives back the optional part when the tail fails
keyword_end_for_tail(s, p, e1) ==
    IF /\ mention_tail_end(s, e1) = 0
       /\ LiteralAt(s, p, T_thong_tu)
       /\ e1 # p + Len(T_thong_tu)
    THEN p + Len(T_thong_tu)
    ELSE e1

partial_match_from(s, p, e0) ==
    partial_match_groups(s, p, e0, mention_tail_end(s, e0))

\* partial_pattern at p:
\* (Luật|...|Quyết định)\s+\d{1,3}/\d{4}(?:/[\w\-]+)?, re.IGNORECASE
partial_pattern_match(s, p) ==
    partial_match_from(s, p, keyword_end_for_tail(s, p, document_type_end(s, p)))

\* the set of group(0) over partial_pattern.finditer(normalized_text)
RECURSIVE partial_mentions(_, _)
partial_mentions_next(s, p, m) ==
    IF m.found THEN {m.group0} \cup partial_mentions(s, m.stop)
    ELSE partial_mentions(s, p + 1)

partial_mentions(s, p) ==
    IF p > Len(s) THEN {}
    ELSE partial_mentions_next(s, p, partial_pattern_match(s, p))

\* id_pattern.search(mention): group(0).lower(), "" when there is none
RECURSIVE id_search(_, _)
id_search(s, p) ==
    IF p > Len(s) THEN <<>>
    ELSE IF partial_id_end(s, p, TRUE) # 0
    THEN lower(SubSeq(s, p, partial_id_end(s, p, TRUE) - 1))
    ELSE id_search(s, p + 1)

(***************************************************************************)
(* difflib.get_close_matches, as match_documents_comprehensive calls it    *)
(***************************************************************************)
\* the characters of document ids, in code point order
CodePointOrder ==
    <<" ", "-", ".", "/", "0", "1", "2", "3", "4", "5", "6", "7", "8", "9",
      "A", "B", "C", "D", "E", "F", "G", "H", "I", "J", "K", "L", "M", "N",
      "O", "P", "Q", "R", "S", "T", "U", "V", "W", "X", "Y", "Z",
      "a", "b", "c", "d", "e", "f", "g", "h", "i", "j", "k", "l", "m", "n",
      "o", "p", "q", "r", "s", "t", "u", "v", "w", "x", "y", "z", "DD", "dd">>

ord(c) == CHOOSE i \in 1..Len(CodePointOrder) : CodePointOrder[i] = c

\* a < b for two str
StrLess(a, b) ==
    \E k \in 1..(Len(b)) :
        /\ k <= Len(a) + 1
        /\ \A j \in 1..(k - 1) : a[j] = b[j]
        /\ (k = Len(a) + 1 \/ ord(a[k]) < ord(b[k]))

\* SequenceMatcher: the total size of the matching blocks of a[alo..ahi] and
\* b[blo..bhi]; the longest block first, the earliest in a, then in b
RECURSIVE matching_size(_, _, _, _, _, _)
matching_size(a, alo, ahi, b, blo, bhi) ==
    LET blocks == {x \in (alo..ahi) \X (blo..bhi) \X (1..(ahi - alo + 1)) :
                      /\ x[1] + x[3] - 1 <= ahi
                      /\ x[2] + x[3] - 1 <= bhi
                      /\ \A d \in 0..(x[3] - 1) : a[x[1] + d] = b[x[2] + d]}
    IN IF blocks = {} THEN 0
       ELSE LET best == CHOOSE x \in blocks : \A y \in blocks :
                           \/ x[3] > y[3]
                           \/ x[3] = y[3] /\ x[1] < y[1]
                           \/ x[3] = y[3] /\ x[1] = y[1] /\ x[2] <= y[2]
            IN best[3]
                 + matching_size(a, alo, best[1] - 1, b, blo, best[2] - 1)
                 + matching_size(a, best[1] + best[3], ahi,
                                 b, best[2] + best[3], bhi)

\* SequenceMatcher(None, a, b).ratio() = 2.0 * matches / (len(a) + len(b))
ratio(a, b) ==
    IF Len(a) + Len(b) = 0 THEN Frac(1, 1)
    ELSE Frac(2 * matching_size(a, 1, Len(a), b, 1, Len(b)), Len(a) + Len(b))

\* heapq.nlargest order on (score, x): larger score first, then larger x
RECURSIVE nlargest_order(_)
nlargest_order(list) ==
    IF list = <<>> THEN <<>>
    ELSE LET n == Len(list)
             head == nlargest_order(SubSeq(list, 1, n - 1))
             x == list[n]
             before(y) == \/ FracGT(y[1], x[1])
                          \/ FracEQ(y[1], x[1]) /\ ~StrLess(y[2], x[2])
             k == Cardinality({j \in 1..Len(head) : before(head[j])})
         IN SubSeq(head, 1, k) \o <<x>> \o SubSeq(head, k + 1, Len(head))

\* get_close_matches(word, possibilities, n, cutoff)
get_close_matches(word, possibilities, n, cutoff) ==
    LET scored == [j \in 1..Len(possibilities) |->
                      <<ratio(possibilities[j], word), possibilities[j]>>]
        result == SelectSeq(scored, LAMBDA x : FracGE(x[1], cutoff))
        best == take(nlargest_order(result), n)
    IN [j \in 1..Len(best) |-> best[j][2]]

(***************************************************************************)
(* DocRetriever.match_documents_comprehensive                              *)
(***************************************************************************)
\* a defaultdict(list) is a function from its keys to lists
EmptyDict == [k \in {} |-> <<>>]

\* d[key].extend(list); reading d[key] creates the key
Extend(d, key, list) ==
    IF key \in DOMAIN d THEN [d EXCEPT ![key] = @ \o list]
    ELSE (key :> list) @@ d

\* the posting lists of the query trigrams, one after the other
RECURSIVE trigram_hits(_, _, _)
trigram_hits(trigrams, inverted_index, i) ==
    IF i > Len(trigrams) THEN <<>>
    ELSE (IF trigrams[i] \in DOMAIN inverted_index
          THEN inverted_index[trigrams[i]] ELSE <<>>)
            \o trigram_hits(trigrams, inverted_index, i + 1)

\* the keys of candidate_docs in insertion order
RECURSIVE first_seen(_)
first_seen(hits) ==
    IF hits = <<>> THEN <<>>
    ELSE LET head == first_seen(SubSeq(hits, 1, Len(hits) - 1))
             x == hits[Len(hits)]
         IN IF \E j \in 1..Len(head) : head[j] = x THEN head
            ELSE Append(head, x)

\* candidate_docs.items(): <<doc_id, count>>
candidate_docs(hits) ==
    [j \in 1..Len(first_seen(hits)) |->
        <<first_seen(hits)[j],
          Cardinality({h \in 1..Len(hits) : hits[h] = first_seen(hits)[j]})>>]

\* sorted(items, key=lambda x: x[1], reverse=True): stable
RECURSIVE sorted_by_count(_)
sorted_by_count(items) ==
    IF items = <<>> THEN <<>>
    ELSE LET n == Len(items)
             head == sorted_by_count(SubSeq(items, 1, n - 1))
             x == items[n]
             k == Cardinality({j \in 1..Len(head) : head[j][2] >= x[2]})
         IN SubSeq(head, 1, k) \o <<x>> \o SubSeq(head, k + 1, Len(head))

\* sorted_candidates for a normalized text
sorted_candidates_of(normalized_text, inverted_index) ==
    sorted_by_count(candidate_docs(
        trigram_hits(extract_trigrams(word_tokenize(normalized_text)),
                     inverted_index, 1)))

\* the rows as (Full Name, Document_ID)
name_and_id(rows) ==
    [j \in 1..Len(rows) |-> <<rows[j]["Full Name"], rows[j]["Document_ID"]>>]

\* df[df['Document_ID'].str.lower() == id], in table order
rows_with_id(df, id) ==
    name_and_id(SelectSeq(df.rows, LAMBDA row : lower(row["Document_ID"]) = id))

\* df[df['Document_ID'].str.lower().str.match(re.escape(prefix) + '.*')]
rows_with_id_prefix(df, prefix) ==
    name_and_id(SelectSeq(df.rows,
                          LAMBDA row : OccursAt(lower(row["Document_ID"]), 1, prefix)))

\* df['Document_ID'].str.lower(), as a list
lower_ids(df) == [j \in 1..Len(df.rows) |-> lower(df.rows[j]["Document_ID"])]

\* the lists of the three rules for a partial id
exact_matches(df, partial_id) == rows_with_id(df, partial_id)

possible_ids(df, partial_id, top_n, cutoff) ==
    get_close_matches(partial_id, lower_ids(df), top_n, cutoff)

fuzzy_matches(df, ids) ==
    [j \in 1..Len(ids) |-> rows_with_id(df, ids[j])[1]]

partial_matches(df, partial_id) == rows_with_id_prefix(df, partial_id)

\* the partial-id rule, after the fuzzy rule found nothing
partial_rule(df, matches, mention, partial_id) ==
    IF partial_id # <<>> /\ partial_matches(df, partial_id) # <<>>
    THEN Extend(matches, mention, partial_matches(df, partial_id))
    ELSE matches

\* the fuzzy rule and what follows it; its debug line reads matches[mention]
fuzzy_rule(df, matches, mention, partial_id, ids) ==
    IF ids # <<>>
    THEN Extend(matches, mention, fuzzy_matches(df, ids))
    ELSE partial_rule(df, Extend(matches, mention, <<>>), mention, partial_id)

\* the rule chain for a mention with its partial id (both keyword
\* categories run the same chain)
rule_chain(df, matches, mention, partial_id, top_n, fuzzy, cutoff) ==
    IF exact_matches(df, partial_id) # <<>>
    THEN Extend(matches, mention, exact_matches(df, partial_id))
    ELSE IF fuzzy /\ partial_id # <<>>
    THEN fuzzy_rule(df, matches, mention, partial_id,
                    possible_ids(df, partial_id, top_n, cutoff))
    ELSE partial_rule(df, matches, mention, partial_id)

\* one iteration of the loop over the mentions
match_mention(df, matches, mention, top_n, fuzzy, cutoff, document_type) ==
    IF ~partial_pattern_match(mention, 1).found THEN matches
    ELSE IF /\ document_type # <<>>
            /\ lower(document_type) # lower(partial_pattern_match(mention, 1).group1)
    THEN matches
    ELSE rule_chain(df, matches, mention, id_search(mention, 1), top_n, fuzzy,
                    cutoff)

TrigramKeyPrefix ==
    <<"C","a","n","d","i","d","a","t","e"," ","M","a","t","c","h"," ",
      "f","o","r"," ","T","r","i","g","r","a","m",":"," ">>

\* variant: the fallback lists every row of the registry, whatever the
\* trigram index supplied
trigram_fallback_every_row(df, matches, candidates, i) ==
    LET key(r) == TrigramKeyPrefix \o df.rows[r]["Document_ID"]
    IN [k \in {key(r) : r \in 1..Len(df.rows)} |->
          <<name_and_id(df.rows)[CHOOSE r \in 1..Len(df.rows) : key(r) = k]>>]
       @@ matches

\* the loop over sorted_candidates[:top_n] that runs when no mention matched
RECURSIVE trigram_fallback(_, _, _, _)
trigram_fallback(df, matches, candidates, i) ==
    IF i > Len(candidates) THEN matches
    ELSE trigram_fallback(df,
            IF rows_with_id(df, lower(candidates[i][1])) # <<>>
            THEN Extend(matches, TrigramKeyPrefix \o candidates[i][1],
                        <<rows_with_id(df, lower(candidates[i][1]))[1]>>)
            ELSE matches,
            candidates, i + 1)

\* not any(matches.values())
no_match(matches) == \A k \in DOMAIN matches : matches[k] = <<>>

(***************************************************************************)
(* Inputs: registry files, cached indexes, texts                           *)
(***************************************************************************)
Row_civil_code ==
    [c \in AllColumns |->
        CASE c = "Full Name" -> <<"B","ộ"," ","l","u","ậ","t"," ","d","â","n"," ","s","ự"," ","2","0","1","5">>
          [] c = "Document_ID" -> <<"9","1","/","2","0","1","5","/","Q","H","1","3">>
          [] c = "document_type" -> <<"B","ộ"," ","l","u","ậ","t">>
          [] c = "document_number" -> <<"9","1">>
          [] c = "issuer_body" -> <<"q","h","1","3">>
          [] c = "issue_year" -> <<"2","0","1","5">>]

Row_notary_law ==
    [c \in AllColumns |->
        CASE c = "Full Name" -> <<"L","u","ậ","t"," ","c","ô","n","g"," ","c","h","ứ","n","g"," ","2","0","1","4">>
          [] c = "Document_ID" -> <<"5","3","/","2","0","1","4","/","Q","H","1","3"," ">>
          [] c = "document_type" -> <<"L","u","ậ","t">>
          [] c = "document_number" -> <<"5","3">>
          [] c = "issuer_body" -> <<"Q","H","1","3">>
          [] c = "issue_year" -> <<"2","0","1","4">>]

Row_decree ==
    [c \in AllColumns |->
        CASE c = "Full Name" -> <<"N","g","h","ị"," ","dd","ị","n","h"," ","dd","ầ","u"," ","t","ư"," ","v","ố","n">>
          [] c = "Document_ID" -> <<"9","1","/","2","0","1","5","/","N","D","-","C","P">>
          [] c = "document_type" -> <<"N","g","h","ị"," ","dd","ị","n","h">>
          [] c = "document_number" -> <<"9","1">>
          [] c = "issuer_body" -> <<"c","p">>
          [] c = "issue_year" -> <<"2","0","1","5">>]

\* every column present, issue_year holding strings
Csv_full ==
    [columns |-> AllColumns, numeric |-> {},
     rows |-> <<Row_civil_code, Row_notary_law, Row_decree>>]

\* every column present, issue_year and document_number parsed as integers
Csv_numeric ==
    [columns |-> AllColumns, numeric |-> {"issue_year", "document_number"},
     rows |-> <<Row_civil_code, Row_notary_law, Row_decree>>]

\* only the title, the id and the type
Csv_titles ==
    [columns |-> {"Full Name", "Document_ID", "document_type"}, numeric |-> {},
     rows |-> <<Row_civil_code, Row_notary_law>>]

CsvFiles == {Csv_full, Csv_numeric, Csv_titles}

\* the trigram index of a registry (section 4.3): every trigram of a title
\* lists the Document_ID of its row, rows in table order
build_trigram_index(csv) ==
    LET trigrams(r) ==
            extract_trigrams(word_tokenize(normalize_text(csv.rows[r]["Full Name"])))
        keys == UNION {{trigrams(r)[j] : j \in 1..Len(trigrams(r))} :
                           r \in 1..Len(csv.rows)}
        owners(t, r) == [j \in 1..Cardinality({j \in 1..Len(trigrams(r)) :
                                                   trigrams(r)[j] = t}) |->
                            csv.rows[r]["Document_ID"]]
        RECURSIVE posting(_, _)
        posting(t, r) ==
            IF r > Len(csv.rows) THEN <<>>
            ELSE owners(t, r) \o posting(t, r + 1)
    IN [t \in keys |-> posting(t, 1)]

\* the texts handed to CombinedDocumentSearch.search:
\* keyword [number] [words] [year]
Keywords == {<<"B","ộ"," ","l","u","ậ","t">>,
            <<"L","u","ậ","t">>,
            <<"N","g","h","ị"," ","dd","ị","n","h">>,
            <<"H","ồ"," ","s","ơ"," ","c","ầ","n"," ","c","h","u","ẩ","n"," ","b","ị">>}
Numbers == {<<>>,
           <<" ","9","1">>,
           <<" ","9","1","/","2","0","1","5">>}
Words == {<<>>,
         <<" ","a">>,
         <<" ","d","â","n"," ","s","ự">>,
         <<" ","C","ô","n","g"," ","c","h","ứ","n","g">>}
Years == {<<>>,
         <<" ","2","0","1","4">>,
         <<" ","2","0","1","5">>,
         <<" ","2","0","1","9">>}
Prefix == <<"DD","i","ề","u"," ","6","4","0"," ">>

Sentences ==
    {kw \o num \o w \o y :
        kw \in Keywords, num \in Numbers, w \in Words, y \in Years}

\* a citation of a code after the number of an article
PrefixedSentences ==
    {Prefix \o Keywords_code \o w \o y :
        Keywords_code \in {<<"B","ộ"," ","l","u","ậ","t">>}, w \in Words, y \in Years}

\* the same citation in two sentences
RepeatedSentences ==
    {kw \o w \o y \o <<".", " ">> \o kw \o w \o y :
        kw \in {<<"B","ộ"," ","l","u","ậ","t">>, <<"L","u","ậ","t">>}, w \in Words, y \in Years}

Queries == Sentences \cup PrefixedSentences \cup RepeatedSentences

\* the texts handed to DocRetriever.search
RetrieverNumbers == {<<>>,
                    <<" ","9","1","/","2","0","1","5">>,
                    <<" ","9","1","/","2","0","1","5","/","N","D","-","C","P">>}
RetrieverWords == {<<>>,
                  <<" ","d","â","n"," ","s","ự">>}
RetrieverYears == {<<>>,
                  <<" ","2","0","1","5">>}

\* two citations in one text
RetrieverPair ==
    <<"L","u","ậ","t"," ","9","1","/","2","0","1","5"," ","v","à"," ","N","g","h","ị"," ","dd","ị","n","h"," ","9","1","/","2","0","1","5","/","N","D","-","C","P">>

RetrieverQueries ==
    {kw \o num \o w \o y :
        kw \in Keywords, num \in RetrieverNumbers, w \in RetrieverWords,
        y \in RetrieverYears} \cup {RetrieverPair}

MaxTopN == 2
TopNs == 1..MaxTopN
Cutoffs == {Frac(1, 2), Frac(3, 5)}
FuzzyCutoffs == {Frac(1, 2), Frac(4, 5)}

\* the arguments of a direct match_documents call
ArgTypes == {<<>>,
            <<"l","u","ậ","t">>,
            <<"b","ộ"," ","l","u","ậ","t">>,
            <<"p","h","á","p"," ","l","ệ","n","h">>,
            <<"n","g","h","ị"," ","dd","ị","n","h">>,
            <<"l","u","ậ","t"," ","b","ộ"," ","l","u","ậ","t">>}
ArgNumbers == {<<>>,
              <<"9","1">>}
ArgYears == {<<>>,
            <<"2","0","1","5">>}
ArgIssuers == {<<>>,
              <<"q","h","1","3">>}
ArgExtras == {<<>>,
             <<"d","â","n"," ","s","ự">>,
             <<"c","ô","n","g"," ","c","h","ứ","n","g"," ","2","0","1","4">>}
ArgMention == <<"m">>

ArgValues ==
    [document_type : ArgTypes, document_number : ArgNumbers,
     issue_year : ArgYears, issuer_body : ArgIssuers, extra_info : ArgExtras]

NoValue ==
    [document_type |-> <<>>, document_number |-> <<>>, issue_year |-> <<>>,
     issuer_body |-> <<>>, extra_info |-> <<>>]

\* the document_type argument of DocRetriever.search
TypeFilters == {<<>>, T_luat}

(***************************************************************************)
(* Construction: __init__ and _load_or_create_token_database of both       *)
(* searchers, and the files they read and write                            *)
(***************************************************************************)
\* a table that holds nothing (DocRetriever.df = None)
NoTable == [columns |-> {}, numeric |-> {}, rows |-> <<>>]

\* the csv file: pd.read_csv returns its table or raises
Readable(table) == [readable |-> TRUE, table |-> table]
Unreadable == [readable |-> FALSE, table |-> NoTable]

\* the pickle file: missing, not loadable by pickle.load, or holding a dict
CacheAbsent == [state |-> "absent", db |-> EmptyDict]
CacheCorrupt == [state |-> "corrupt", db |-> EmptyDict]
Cached(db) == [state |-> "valid", db |-> db]

\* df['Full Name'].tolist()
full_names(table) == [r \in 1..Len(table.rows) |-> table.rows[r]["Full Name"]]

\* create_token_database(documents, apply_tfidf=True): the keys are the
\* features of TfidfVectorizer over the lowercased, re-joined titles; the
\* value of a token, the sum of its tf-idf column, is kept as the column of
\* term counts that determines it
create_token_database(titles) ==
    LET docs == [i \in 1..Len(titles) |->
                    tokenize(join(word_tokenize(lower(titles[i]))))]
        vocabulary == UNION {Terms(docs[i]) : i \in 1..Len(docs)}
    IN [t \in vocabulary |-> [i \in 1..Len(docs) |-> TermCount(docs[i], t)]]

\* variant: the token database is rebuilt and saved whether or not the
\* cache file exists
load_or_create_always_creates(cache, titles) ==
    [raised |-> FALSE,
     token_db |-> create_token_database(titles),
     cache |-> Cached(create_token_database(titles))]

\* _load_or_create_token_database: pickle.load of an existing file (which
\* raises on a file that is no pickle), otherwise build and pickle.dump
load_or_create_token_database(cache, titles) ==
    IF cache.state = "absent"
    THEN [raised |-> FALSE,
          token_db |-> create_token_database(titles),
          cache |-> Cached(create_token_database(titles))]
    ELSE IF cache.state = "corrupt"
    THEN [raised |-> TRUE, token_db |-> EmptyDict, cache |-> cache]
    ELSE [raised |-> FALSE, token_db |-> cache.db, cache |-> cache]

NoSearcher ==
    [cls |-> "none", loaded |-> FALSE, documents |-> NoTable, token_db |-> EmptyDict]

\* CombinedDocumentSearch.__init__: load_documents, then the token database
CombinedDocumentSearch_init(file, cache) ==
    IF ~file.readable
    THEN [raised |-> TRUE, searcher |-> NoSearcher, cache |-> cache]
    ELSE LET db == load_or_create_token_database(
                       cache, full_names(load_documents(file.table)))
         IN IF db.raised
            THEN [raised |-> TRUE, searcher |-> NoSearcher, cache |-> db.cache]
            ELSE [raised |-> FALSE,
                  searcher |-> [cls |-> "CombinedDocumentSearch",
                                loaded |-> TRUE,
                                documents |-> load_documents(file.table),
                                token_db |-> db.token_db],
                  cache |-> db.cache]

\* DocRetriever.__init__: df = None, and the csv is read only when the token
\* database has to be built
DocRetriever_init(file, cache) ==
    IF cache.state = "absent" /\ ~file.readable
    THEN [raised |-> TRUE, searcher |-> NoSearcher, cache |-> cache]
    ELSE LET db == load_or_create_token_database(cache, full_names(file.table))
         IN IF db.raised
            THEN [raised |-> TRUE, searcher |-> NoSearcher, cache |-> db.cache]
            ELSE [raised |-> FALSE,
                  searcher |-> [cls |-> "DocRetriever",
                                loaded |-> cache.state = "absent",
                                documents |-> IF cache.state = "absent"
                                              THEN file.table ELSE NoTable,
                                token_db |-> db.token_db],
                  cache |-> db.cache]

\* the loop of match_documents_comprehensive over the set of mentions
RECURSIVE match_mentions(_, _, _, _, _, _, _)
match_mentions(df, matches, mentions, n, f, c, t) ==
    IF mentions = {} THEN matches
    ELSE LET mention == CHOOSE m \in mentions : TRUE
         IN match_mentions(df, match_mention(df, matches, mention, n, f, c, t),
                           mentions \ {mention}, n, f, c, t)

\* match_documents_comprehensive(text, inverted_index, {}, df, ...)
match_documents_comprehensive(text, index, df, n, f, c, t) ==
    IF no_match(match_mentions(df, EmptyDict,
                               partial_mentions(normalize_text(text), 1),
                               n, f, c, t))
    THEN trigram_fallback(df,
             match_mentions(df, EmptyDict,
                            partial_mentions(normalize_text(text), 1), n, f, c, t),
             take(sorted_candidates_of(normalize_text(text), index), n), 1)
    ELSE match_mentions(df, EmptyDict,
                        partial_mentions(normalize_text(text), 1), n, f, c, t)

\* a second edition of the civil code, its id written after a blank
Row_civil_code_2005 ==
    [c \in AllColumns |->
        CASE c = "Full Name" -> <<"B","ộ"," ","l","u","ậ","t"," ","d","â","n"," ","s","ự">>
          [] c = "Document_ID" -> <<" ","3","3","/","2","0","0","5","/","Q","H","1","1">>
          [] c = "document_type" -> <<"B","ộ"," ","l","u","ậ","t">>
          [] c = "document_number" -> <<"3","3">>
          [] c = "issuer_body" -> <<"q","h","1","1">>
          [] c = "issue_year" -> <<"2","0","0","5">>]

\* two editions of one code: every trigram of the older title is a trigram
\* of the newer title
Csv_editions ==
    [columns |-> AllColumns, numeric |-> {},
     rows |-> <<Row_civil_code, Row_civil_code_2005>>]

RegistryFiles == {Readable(Csv_full), Readable(Csv_editions), Unreadable}

\* the texts searched on a constructed searcher: the two titles, and
\* citations by id
TitleQueries == {Csv_editions.rows[r]["Full Name"] : r \in 1..Len(Csv_editions.rows)}
IdQueries == {<<"B","ộ"," ","l","u","ậ","t"," ","3","3","/","2","0","0","5","/","Q","H","1","1">>, <<"L","u","ậ","t"," ","9","1","/","2","0","1","5">>}
SearcherQueries == TitleQueries \cup IdQueries

(***************************************************************************)
(* utils/record.py: Record.get                                             *)
(* A Python object is [oid, kind, int, str, items]: oid is its identity    *)
(* (what `is` compares), the other fields its value                        *)
(***************************************************************************)
PyNone == [oid |-> "None", kind |-> "NoneType", int |-> 0, str |-> "", items |-> <<>>]
PyInt(oid, n) == [oid |-> oid, kind |-> "int", int |-> n, str |-> "", items |-> <<>>]
PyStr(oid, s) == [oid |-> oid, kind |-> "str", int |-> 0, str |-> s, items |-> <<>>]
PyList(oid, items) == [oid |-> oid, kind |-> "list", int |-> 0, str |-> "", items |-> items]

\* the record of tests/test_record.py
Record_sample ==
    [id |-> PyInt("id", 1),
     title |-> PyStr("title", "Sample Title"),
     published_date |-> PyStr("published_date", "2024-09-22"),
     categories |-> PyList("categories",
                           <<PyStr("c0", "Category1"), PyStr("c1", "Category2"),
                             PyStr("c2", "Category3")>>),
     content |-> PyStr("content", "Sample content here.")]

\* a record whose categories are nested and whose content is None
Record_nested ==
    [id |-> PyInt("id", 2),
     title |-> PyStr("title", "Nested"),
     published_date |-> PyStr("published_date", "2024-09-23"),
     categories |-> PyList("categories",
                           <<PyList("c0", <<PyStr("c00", "a"), PyStr("c01", "b")>>),
                             PyStr("c1", "Category2")>>),
     content |-> PyNone]

Records == {Record_sample, Record_nested}

\* the key argument: the attributes of a Record and two names it lacks
AttributeNames == {"id", "title", "published_date", "categories", "content"}
GetKeys == AttributeNames \cup {"author", "publisher"}

\* the positional arguments after the key
MaxIndices == 2
GetIndexValues ==
    {PyInt("arg", n) : n \in (0 - 1)..3} \cup {PyStr("arg", "a")}
GetIndices ==
    UNION {[1..k -> GetIndexValues] : k \in 0..MaxIndices}

\* the default argument: not given (None), a new object, or the very
\* object that an attribute of the record holds
GetDefaults(record) ==
    {PyNone, PyStr("default", "Unknown"), record["categories"]}

\* the loop over the indices from the i-th on
RECURSIVE apply_indices(_, _, _, _)
apply_indices(value, args, i, default) ==
    IF i > Len(args) THEN value
    ELSE IF value.kind = "list"
    THEN IF /\ args[i].kind = "int"
            /\ 0 <= args[i].int
            /\ args[i].int < Len(value.items)
         THEN apply_indices(value.items[args[i].int + 1], args, i + 1, default)
         ELSE default
    ELSE default

\* Record.get(key, *args, default=default) for a str key:
\* getattr(self, key, default), `if value is default: return default`, then
\* the indices
get(record, key, args, default) ==
    IF key \notin DOMAIN record THEN default
    ELSE IF record[key].oid = default.oid THEN default
    ELSE apply_indices(record[key], args, 1, default)

NoCall ==
    [called |-> FALSE, record |-> Record_sample, key |-> "id", args |-> <<>>,
     default |-> PyNone, returned |-> PyNone]

(***************************************************************************)
(* utils/file_handler.py: append_to_output_file / save_processed_record    *)
(* A record is [id, content, serializable]; the file is its characters     *)
(***************************************************************************)
\* record.get('id'): absent (None), an int or a str, written with its digits
NoId == [kind |-> "none", text |-> <<>>]
IntId(text) == [kind |-> "int", text |-> text]
StrId(text) == [kind |-> "str", text |-> text]

\* the characters JSON writes for a str: newline, quote and backslash escaped
RECURSIVE json_escape(_)
json_escape(s) ==
    IF s = <<>> THEN <<>>
    ELSE (CASE Head(s) = "\n" -> <<"\\", "n">>
            [] Head(s) = "\"" -> <<"\\", "\"">>
            [] Head(s) = "\\" -> <<"\\", "\\">>
            [] OTHER -> <<Head(s)>>) \o json_escape(Tail(s))

\* json.dump of the id
json_id(id) ==
    IF id.kind = "str" THEN <<"\"">> \o json_escape(id.text) \o <<"\"">>
    ELSE id.text

JsonOpen == <<"{", "\n", " ", " ", "\"", "i", "d", "\"", ":", " ">>
JsonContent == <<",", "\n", " ", " ", "\"", "c", "o", "n", "t", "e", "n", "t",
                 "\"", ":", " ">>
JsonClose == <<"\n", "}">>

\* json.dump(rec, f, indent=2): what reaches the file; for a value that JSON
\* cannot encode the chunks before it are written and TypeError is raised
json_dump(rec) ==
    IF rec.serializable
    THEN [raised |-> FALSE,
          text |-> JsonOpen \o json_id(rec.id) \o JsonContent
                     \o <<"\"">> \o json_escape(rec.content) \o <<"\"">>
                     \o JsonClose]
    ELSE [raised |-> TRUE,
          text |-> JsonOpen \o json_id(rec.id) \o JsonContent]

\* the closing quote of a JSON string whose first character is at p (0 if
\* there is none)
RECURSIVE json_string_end(_, _)
json_string_end(s, p) ==
    IF p > Len(s) THEN 0
    ELSE IF s[p] = "\"" THEN p
    ELSE IF s[p] = "\\" THEN json_string_end(s, p + 2)
    ELSE IF s[p] = "\n" THEN 0
    ELSE json_string_end(s, p + 1)

\* the str that the characters between the quotes stand for
RECURSIVE json_unescape(_)
json_unescape(s) ==
    IF s = <<>> THEN <<>>
    ELSE IF Head(s) = "\\"
    THEN <<IF s[2] = "n" THEN "\n" ELSE s[2]>> \o json_unescape(Tail(Tail(s)))
    ELSE <<Head(s)>> \o json_unescape(Tail(s))

JsonError == [error |-> TRUE, id |-> NoId, content |-> <<>>, serializable |-> TRUE]

\* json.loads of one piece of the file: an object with "id" and "content",
\* JSONDecodeError for anything else
json_loads_content(s, id, p) ==
    IF ~OccursAt(s, p, JsonContent \o <<"\"">>) THEN JsonError
    ELSE IF json_string_end(s, p + Len(JsonContent) + 1) = 0 THEN JsonError
    ELSE IF SubSeq(s, json_string_end(s, p + Len(JsonContent) + 1) + 1, Len(s))
                # JsonClose
    THEN JsonError
    ELSE [error |-> FALSE, id |-> id,
          content |-> json_unescape(
              SubSeq(s, p + Len(JsonContent) + 1,
                     json_string_end(s, p + Len(JsonContent) + 1) - 1)),
          serializable |-> TRUE]

json_loads(s) ==
    IF ~OccursAt(s, 1, JsonOpen) THEN JsonError
    ELSE IF Len(s) > Len(JsonOpen) /\ s[Len(JsonOpen) + 1] = "\""
    THEN IF json_string_end(s, Len(JsonOpen) + 2) = 0 THEN JsonError
         ELSE json_loads_content(
                  s,
                  StrId(json_unescape(SubSeq(s, Len(JsonOpen) + 2,
                                             json_string_end(s, Len(JsonOpen) + 2) - 1))),
                  json_string_end(s, Len(JsonOpen) + 2) + 1)
    ELSE IF DigitRun(s, Len(JsonOpen) + 1, Len(s)) = 0 THEN JsonError
    ELSE json_loads_content(
             s,
             IntId(SubSeq(s, Len(JsonOpen) + 1,
                          Len(JsonOpen) + DigitRun(s, Len(JsonOpen) + 1, Len(s)))),
             Len(JsonOpen) + DigitRun(s, Len(JsonOpen) + 1, Len(s)) + 1)

\* data.split('\n\n'): the pieces between the occurrences taken left to right
RECURSIVE split_records(_, _, _)
split_records(data, p, start) ==
    IF p > Len(data) THEN <<SubSeq(data, start, Len(data))>>
    ELSE IF OccursAt(data, p, <<"\n", "\n">>)
    THEN <<SubSeq(data, start, p - 1)>> \o split_records(data, p + 2, p + 2)
    ELSE split_records(data, p + 1, start)

\* [json.loads(r) for r in record_strings], [] for a blank file
parse_records(data) ==
    IF strip(data) = <<>> THEN <<>>
    ELSE [i \in 1..Len(split_records(strip(data), 1, 1)) |->
            json_loads(split_records(strip(data), 1, 1)[i])]

\* the file after `for rec in records: json.dump(rec, f); f.write('\n\n')`,
\* which stops at the first record that cannot be encoded
RECURSIVE write_records(_, _)
write_records(records, i) ==
    IF i > Len(records) THEN <<>>
    ELSE IF json_dump(records[i]).raised THEN json_dump(records[i]).text
    ELSE json_dump(records[i]).text \o <<"\n", "\n">>
            \o write_records(records, i + 1)

\* variant: the record is always appended, an equal id or not
merge_record_appends(records, record) == Append(records, record)

\* the record replaces every parsed record of its id, or is appended
merge_record(records, record) ==
    IF \E i \in 1..Len(records) : records[i].id = record.id
    THEN [i \in 1..Len(records) |->
            IF records[i].id = record.id THEN record ELSE records[i]]
    ELSE Append(records, record)

MissingFile == [exists |-> FALSE, data |-> <<>>]
File(data) == [exists |-> TRUE, data |-> data]

\* append_to_output_file(file_path, record): the file it leaves
append_to_output_file(file, record) ==
    IF record.id.kind = "none" THEN file
    ELSE IF ~file.exists THEN File(write_records(<<record>>, 1))
    ELSE IF \E i \in 1..Len(parse_records(file.data)) :
                parse_records(file.data)[i].error
    THEN file
    ELSE File(write_records(merge_record(parse_records(file.data), record), 1))

\* save_processed_record(record, file_path)
save_processed_record(record, file) == append_to_output_file(file, record)

\* the records handed to the two functions
MaxSaves == 3
RecordIds == {NoId, IntId(<<"1">>), IntId(<<"2">>), StrId(<<"1">>)}
RecordContents == {<<"a">>, <<"\n", "\n">>, <<"a", "\"">>}
OutputRecords ==
    [id : RecordIds, content : RecordContents, serializable : {TRUE}]
        \cup {[id |-> IntId(<<"2">>), content |-> <<>>, serializable |-> FALSE]}

\* the file before the first call: missing, empty or blank
InitialFiles == {MissingFile, File(<<>>), File(<<"\n">>)}

(***************************************************************************)
(* utils/input_processor.py: InputProcessor._chunk_text                    *)
(***************************************************************************)
\* text.split('\n\n')
paragraphs_of(text) == split_records(text, 1, 1)

\* len(s.split())
word_count(s) == Len(split(s))

\* the loop over the paragraphs from the i-th on, and the final append
RECURSIVE chunk_from(_, _, _, _, _)
chunk_from(paragraphs, i, current_chunk, chunks, max_words) ==
    IF i > Len(paragraphs)
    THEN IF current_chunk # <<>> THEN Append(chunks, strip(current_chunk))
         ELSE chunks
    ELSE IF word_count(paragraphs[i]) = 0
    THEN chunk_from(paragraphs, i + 1, current_chunk, chunks, max_words)
    ELSE IF word_count(current_chunk) + word_count(paragraphs[i]) <= max_words
    THEN chunk_from(paragraphs, i + 1,
                    IF current_chunk # <<>>
                    THEN current_chunk \o <<"\n", "\n">> \o paragraphs[i]
                    ELSE paragraphs[i],
                    chunks, max_words)
    ELSE chunk_from(paragraphs, i + 1, paragraphs[i],
                    IF current_chunk # <<>>
                    THEN Append(chunks, strip(current_chunk))
                    ELSE chunks,
                    max_words)

\* InputProcessor._chunk_text(text, max_words)
chunk_text(text, max_words) ==
    chunk_from(paragraphs_of(text), 1, <<>>, <<>>, max_words)

\* the texts and thresholds handed to _chunk_text
MaxTextLen == 6
MaxWords == 2
ChunkChars == {"a", " ", "\n"}
ChunkTexts == UNION {[1..k -> ChunkChars] : k \in 0..MaxTextLen}

NoChunkCall == [called |-> FALSE, text |-> <<>>, max_words |-> 1, chunks |-> <<>>]

(***************************************************************************)
(* State                                                                   *)
(***************************************************************************)
VARIABLES
    csv,                \* the registry file
    documents,          \* CombinedDocumentSearch.documents
    inverted_index,     \* the index DocRetriever loaded from its cache file
    pc,                 \* "idle", "matching", "dr_matching", "done", "raised"
    op,                 \* the running call: "search", "match_documents", "dr_search"
    query, top_n, cutoff, fuzzy, document_type,     \* its arguments
    extracted_mentions, \* search: the extracted mention dicts
    idx,                \* search: the next mention to match
    pending,            \* DocRetriever: the mentions not yet visited
    sorted_candidates,  \* DocRetriever: the ranked trigram candidates
    matches,            \* the defaultdict being filled
    value,              \* the mention fields of the latest match_documents call
    weights,            \* the dynamic_weights it computed
    result,             \* the returned mapping
    registry_file,      \* the csv file at csv_path / document_db
    cache_file,         \* the pickle file at token_db_path
    searcher,           \* the most recently constructed searcher object
    built,              \* that object as its constructor left it
    construction,       \* what the latest constructor call found and did
    outcome,            \* the latest search on the constructed searcher
    get_call,           \* Record.get: the call and what it returned
    output_file,        \* the file that append_to_output_file rewrites
    saved,              \* the records handed to it so far, in call order
    chunk_call          \* InputProcessor._chunk_text: the call and its chunks

vars == <<csv, documents, inverted_index, pc, op, query, top_n, cutoff, fuzzy,
          document_type, extracted_mentions, idx, pending, sorted_candidates,
          matches, value, weights, result, registry_file, cache_file,
          searcher, built, construction, outcome, get_call, output_file, saved,
          chunk_call>>

\* the state of the searcher life cycle, of Record.get and of the output file
lifecycle == <<registry_file, cache_file, searcher, built, construction, outcome>>
others == <<lifecycle, get_call, output_file, saved, chunk_call>>

registry == <<csv, documents, inverted_index>>
frame == <<query, top_n, cutoff, fuzzy, document_type>>

\* no searcher has been constructed through the life cycle below
NoConstruction ==
    [cls |-> "none", registry_before |-> Unreadable, cache_before |-> CacheAbsent,
     cache_after |-> CacheAbsent, raised |-> FALSE]
NoOutcome ==
    [searched |-> FALSE, query |-> <<>>, fuzzy |-> FALSE, raised |-> FALSE,
     result |-> EmptyDict]

NoLifecycle ==
    /\ registry_file = Readable(csv)
    /\ cache_file = CacheAbsent
    /\ searcher = NoSearcher
    /\ built = NoSearcher
    /\ construction = NoConstruction
    /\ outcome = NoOutcome

NoOutput ==
    /\ output_file = MissingFile
    /\ saved = <<>>

\* no call is running on the searcher
NoSearchCall ==
    /\ pc = "idle"
    /\ op = "none"
    /\ query = <<>>
    /\ top_n = 1
    /\ cutoff = Frac(1, 2)
    /\ fuzzy = FALSE
    /\ document_type = <<>>
    /\ extracted_mentions = <<>>
    /\ idx = 1
    /\ pending = {}
    /\ sorted_candidates = <<>>
    /\ matches = EmptyDict
    /\ value = NoValue
    /\ weights = dynamic_weights(NoValue)
    /\ result = EmptyDict

Init ==
    /\ csv \in CsvFiles
    /\ documents = load_documents(csv)
    /\ inverted_index =
          IF csv = Csv_full THEN build_trigram_index(csv) ELSE EmptyDict
    /\ NoSearchCall
    /\ NoLifecycle
    /\ get_call = NoCall
    /\ chunk_call = NoChunkCall
    /\ NoOutput

(***************************************************************************)
(* CombinedDocumentSearch.search                                           *)
(***************************************************************************)
\* search(query, top_n, cutoff) up to the loop over the extracted mentions
Search(q, n, c) ==
    /\ pc = "idle"
    /\ pc' = "matching"
    /\ op' = "search"
    /\ query' = q
    /\ top_n' = n
    /\ cutoff' = c
    /\ extracted_mentions' = extract_document_mentions(q)
    /\ idx' = 1
    /\ matches' = EmptyDict
    /\ UNCHANGED <<others, registry, fuzzy, document_type, pending, sorted_candidates,
                   value, weights, result>>

mention_value(mention_dict_) ==
    [prop \in DOMAIN NoValue |-> mention_dict_[prop]]

\* one iteration of the loop: match_documents for the mention and
\* matches[key].extend(value); an exception ends the call
MatchMention ==
    /\ pc = "matching"
    /\ op = "search"
    /\ idx <= Len(extracted_mentions)
    /\ LET md == extracted_mentions[idx]
           mention_matches ==
               match_documents(documents, mention_value(md), top_n, cutoff)
       IN /\ value' = mention_value(md)
          /\ weights' = dynamic_weights(mention_value(md))
          /\ IF mention_matches.raised
             THEN /\ pc' = "raised"
                  /\ UNCHANGED <<matches, idx>>
             ELSE /\ pc' = "matching"
                  /\ matches' = Extend(matches, md.mention, mention_matches.list)
                  /\ idx' = idx + 1
    /\ UNCHANGED <<others, registry, op, frame, extracted_mentions, pending,
                   sorted_candidates, result>>

\* the final loop: every list sorted by score and cut to top_n; return
SortAndTrim ==
    /\ pc = "matching"
    /\ op = "search"
    /\ idx > Len(extracted_mentions)
    /\ matches' = [k \in DOMAIN matches |->
                      take(sorted_by_score(matches[k]), top_n)]
    /\ result' = matches'
    /\ pc' = "done"
    /\ UNCHANGED <<others, registry, op, frame, extracted_mentions, idx, pending,
                   sorted_candidates, value, weights>>

(***************************************************************************)
(* CombinedDocumentSearch.match_documents, called directly                 *)
(***************************************************************************)
MatchDocuments(v, n, c) ==
    /\ pc = "idle"
    /\ op' = "match_documents"
    /\ value' = v
    /\ weights' = dynamic_weights(v)
    /\ top_n' = n
    /\ cutoff' = c
    /\ LET r == match_documents(documents, v, n, c)
       IN IF r.raised
          THEN /\ pc' = "raised"
               /\ UNCHANGED <<matches, result>>
          ELSE /\ pc' = "done"
               /\ matches' = (ArgMention :> r.list)
               /\ result' = matches'
    /\ UNCHANGED <<others, registry, query, fuzzy, document_type, extracted_mentions,
                   idx, pending, sorted_candidates>>

(***************************************************************************)
(* DocRetriever.search                                                     *)
(***************************************************************************)
\* search -> match_documents_comprehensive up to the loop over the mentions
DRSearch(q, n, f, c, t) ==
    /\ pc = "idle"
    /\ pc' = "dr_matching"
    /\ op' = "dr_search"
    /\ query' = q
    /\ top_n' = n
    /\ fuzzy' = f
    /\ cutoff' = c
    /\ document_type' = t
    /\ pending' = partial_mentions(normalize_text(q), 1)
    /\ sorted_candidates' = sorted_candidates_of(normalize_text(q), inverted_index)
    /\ matches' = EmptyDict
    /\ UNCHANGED <<others, registry, extracted_mentions, idx, value, weights, result>>

\* one iteration of the loop over the set of mentions, in any order
DRMatchMention(mention) ==
    /\ pc = "dr_matching"
    /\ mention \in pending
    /\ pending' = pending \ {mention}
    /\ matches' = match_mention(csv, matches, mention, top_n, fuzzy, cutoff,
                                document_type)
    /\ UNCHANGED <<others, registry, pc, op, frame, extracted_mentions, idx,
                   sorted_candidates, value, weights, result>>

\* the trigram fallback when no mention has a match; return
DRFallback ==
    /\ pc = "dr_matching"
    /\ pending = {}
    /\ matches' = IF no_match(matches)
                  THEN trigram_fallback(csv, matches,
                                        take(sorted_candidates, top_n), 1)
                  ELSE matches
    /\ result' = matches'
    /\ pc' = "done"
    /\ UNCHANGED <<others, registry, op, frame, extracted_mentions, idx, pending,
                   sorted_candidates, value, weights>>

\* the caller takes the result (or the exception); the searcher is idle again
Return ==
    /\ pc \in {"done", "raised"}
    /\ pc' = "idle"
    /\ op' = "none"
    /\ query' = <<>>
    /\ top_n' = 1
    /\ cutoff' = Frac(1, 2)
    /\ fuzzy' = FALSE
    /\ document_type' = <<>>
    /\ extracted_mentions' = <<>>
    /\ idx' = 1
    /\ pending' = {}
    /\ sorted_candidates' = <<>>
    /\ matches' = EmptyDict
    /\ value' = NoValue
    /\ weights' = dynamic_weights(NoValue)
    /\ result' = EmptyDict
    /\ UNCHANGED <<others, registry>>

Next ==
    \/ \E q \in Queries, n \in TopNs, c \in Cutoffs : Search(q, n, c)
    \/ MatchMention
    \/ SortAndTrim
    \/ \E v \in ArgValues, n \in TopNs, c \in Cutoffs : MatchDocuments(v, n, c)
    \/ \E q \in RetrieverQueries, n \in TopNs, f \in BOOLEAN, c \in FuzzyCutoffs,
          t \in TypeFilters : DRSearch(q, n, f, c, t)
    \/ \E mention \in pending : DRMatchMention(mention)
    \/ DRFallback
    \/ Return

Spec == Init /\ [][Next]_vars

\* direct calls of match_documents only; the caller keeps calling: a call
\* that can be made, or a result that can be taken, eventually is
ScoreNext ==
    \/ \E v \in ArgValues, n \in TopNs, c \in Cutoffs : MatchDocuments(v, n, c)
    \/ Return

ScoreSpec == Init /\ [][ScoreNext]_vars /\ WF_vars(ScoreNext)

(***************************************************************************)
(* The life cycle of a searcher: the registry file is edited, the cache    *)
(* file is removed, damaged or replaced, searchers are constructed on the  *)
(* files as they are, and the constructed searcher is searched             *)
(***************************************************************************)
\* CombinedDocumentSearch.search as one call
RECURSIVE search_from(_, _, _, _, _, _)
search_from(docs, mentions, i, found, n, c) ==
    IF i > Len(mentions)
    THEN [raised |-> FALSE,
          result |-> [k \in DOMAIN found |-> take(sorted_by_score(found[k]), n)]]
    ELSE IF match_documents(docs, mention_value(mentions[i]), n, c).raised
    THEN [raised |-> TRUE, result |-> EmptyDict]
    ELSE search_from(docs, mentions, i + 1,
                     Extend(found, mentions[i].mention,
                            match_documents(docs, mention_value(mentions[i]), n, c).list),
                     n, c)

search(docs, q, n, c) ==
    search_from(docs, extract_document_mentions(q), 1, EmptyDict, n, c)

LifecycleInit ==
    /\ csv = Csv_full
    /\ documents = load_documents(csv)
    /\ inverted_index = EmptyDict
    /\ NoSearchCall
    /\ registry_file \in RegistryFiles \ {Unreadable}
    /\ cache_file = CacheAbsent
    /\ searcher = NoSearcher
    /\ built = NoSearcher
    /\ construction = NoConstruction
    /\ outcome = NoOutcome
    /\ get_call = NoCall
    /\ chunk_call = NoChunkCall
    /\ NoOutput

lifecycle_frame ==
    <<csv, documents, inverted_index, pc, op, query, top_n, cutoff, fuzzy,
      document_type, extracted_mentions, idx, pending, sorted_candidates,
      matches, value, weights, result, get_call, output_file, saved,
      chunk_call>>

\* the caller has taken the constructor's and the search's results
Settled == construction = NoConstruction /\ outcome = NoOutcome

\* the registry file is replaced (or becomes unreadable)
EditRegistry(file) ==
    /\ Settled
    /\ file # registry_file
    /\ registry_file' = file
    /\ UNCHANGED <<lifecycle_frame, cache_file, searcher, built, construction,
                   outcome>>

\* the cache file is deleted, the invalidation left to the operator
RemoveCache ==
    /\ Settled
    /\ cache_file.state # "absent"
    /\ cache_file' = CacheAbsent
    /\ UNCHANGED <<lifecycle_frame, registry_file, searcher, built, construction,
                   outcome>>

\* the cache file is damaged
CorruptCache ==
    /\ Settled
    /\ cache_file.state # "corrupt"
    /\ cache_file' = CacheCorrupt
    /\ UNCHANGED <<lifecycle_frame, registry_file, searcher, built, construction,
                   outcome>>

\* a trigram index of the current registry is put at the cache path
InstallTrigramIndex ==
    /\ Settled
    /\ registry_file.readable
    /\ cache_file # Cached(build_trigram_index(registry_file.table))
    /\ cache_file' = Cached(build_trigram_index(registry_file.table))
    /\ UNCHANGED <<lifecycle_frame, registry_file, searcher, built, construction,
                   outcome>>

\* CombinedDocumentSearch(csv_path, token_db_path)
ConstructCombined ==
    /\ Settled
    /\ searcher' = CombinedDocumentSearch_init(registry_file, cache_file).searcher
    /\ built' = searcher'
    /\ cache_file' = CombinedDocumentSearch_init(registry_file, cache_file).cache
    /\ construction' =
          [cls |-> "CombinedDocumentSearch",
           registry_before |-> registry_file,
           cache_before |-> cache_file,
           cache_after |-> cache_file',
           raised |-> CombinedDocumentSearch_init(registry_file, cache_file).raised]
    /\ UNCHANGED <<lifecycle_frame, registry_file, outcome>>

\* DocRetriever(config)
ConstructRetriever ==
    /\ Settled
    /\ searcher' = DocRetriever_init(registry_file, cache_file).searcher
    /\ built' = searcher'
    /\ cache_file' = DocRetriever_init(registry_file, cache_file).cache
    /\ construction' =
          [cls |-> "DocRetriever",
           registry_before |-> registry_file,
           cache_before |-> cache_file,
           cache_after |-> cache_file',
           raised |-> DocRetriever_init(registry_file, cache_file).raised]
    /\ UNCHANGED <<lifecycle_frame, registry_file, outcome>>

\* CombinedDocumentSearch.search(query) with its defaults top_n = 1,
\* cutoff = 0.5: nothing of self is assigned
CombinedSearch(q) ==
    /\ Settled
    /\ searcher.cls = "CombinedDocumentSearch"
    /\ outcome' = [searched |-> TRUE, query |-> q, fuzzy |-> FALSE,
                   raised |-> search(searcher.documents, q, 1, Frac(1, 2)).raised,
                   result |-> search(searcher.documents, q, 1, Frac(1, 2)).result]
    /\ UNCHANGED <<lifecycle_frame, registry_file, cache_file, searcher, built,
                   construction>>

\* DocRetriever.search(query, top_n=1, fuzzy=f): `if self.df is None:
\* self.df = pd.read_csv(...)`, then match_documents_comprehensive with
\* self.token_db as the inverted index
RetrieverSearch(q, f) ==
    /\ Settled
    /\ searcher.cls = "DocRetriever"
    /\ IF ~searcher.loaded /\ ~registry_file.readable
       THEN /\ outcome' = [searched |-> TRUE, query |-> q, fuzzy |-> f,
                           raised |-> TRUE, result |-> EmptyDict]
            /\ UNCHANGED searcher
       ELSE /\ searcher' = [searcher EXCEPT
                               !.loaded = TRUE,
                               !.documents = IF searcher.loaded THEN @
                                             ELSE registry_file.table]
            /\ outcome' =
                  [searched |-> TRUE, query |-> q, fuzzy |-> f, raised |-> FALSE,
                   result |-> match_documents_comprehensive(
                                  q, searcher.token_db, searcher'.documents,
                                  1, f, Frac(4, 5), <<>>)]
    /\ UNCHANGED <<lifecycle_frame, registry_file, cache_file, built, construction>>

\* the caller takes the searcher (or the exception), or the mapping
Continue ==
    /\ ~Settled
    /\ construction' = NoConstruction
    /\ outcome' = NoOutcome
    /\ UNCHANGED <<lifecycle_frame, registry_file, cache_file, searcher, built>>

LifecycleNext ==
    \/ \E file \in RegistryFiles : EditRegistry(file)
    \/ RemoveCache
    \/ CorruptCache
    \/ InstallTrigramIndex
    \/ ConstructCombined
    \/ ConstructRetriever
    \/ \E q \in SearcherQueries : CombinedSearch(q)
    \/ \E q \in SearcherQueries, f \in BOOLEAN : RetrieverSearch(q, f)
    \/ Continue

LifecycleSpec == LifecycleInit /\ [][LifecycleNext]_vars

(***************************************************************************)
(* Record.get, applied to every call of the bounded sets                   *)
(***************************************************************************)
RecordInit ==
    /\ csv = Csv_full
    /\ documents = load_documents(csv)
    /\ inverted_index = EmptyDict
    /\ NoSearchCall
    /\ NoLifecycle
    /\ get_call = NoCall
    /\ chunk_call = NoChunkCall
    /\ NoOutput

Get(record, key, args, default) ==
    /\ ~get_call.called
    /\ get_call' = [called |-> TRUE, record |-> record, key |-> key,
                    args |-> args, default |-> default,
                    returned |-> get(record, key, args, default)]
    /\ UNCHANGED <<csv, documents, inverted_index, pc, op, query, top_n, cutoff,
                   fuzzy, document_type, extracted_mentions, idx, pending,
                   sorted_candidates, matches, value, weights, result, lifecycle,
                   output_file, saved, chunk_call>>

\* the caller takes the value
GetReturn ==
    /\ get_call.called
    /\ get_call' = NoCall
    /\ UNCHANGED <<csv, documents, inverted_index, pc, op, query, top_n, cutoff,
                   fuzzy, document_type, extracted_mentions, idx, pending,
                   sorted_candidates, matches, value, weights, result, lifecycle,
                   output_file, saved, chunk_call>>

RecordNext ==
    \/ \E record \in Records, key \in GetKeys, args \in GetIndices :
          \E default \in GetDefaults(record) : Get(record, key, args, default)
    \/ GetReturn

RecordSpec == RecordInit /\ [][RecordNext]_vars

(***************************************************************************)
(* The output file under a sequence of append_to_output_file and           *)
(* save_processed_record calls                                             *)
(***************************************************************************)
OutputInit ==
    /\ csv = Csv_full
    /\ documents = load_documents(csv)
    /\ inverted_index = EmptyDict
    /\ NoSearchCall
    /\ NoLifecycle
    /\ get_call = NoCall
    /\ chunk_call = NoChunkCall
    /\ output_file \in InitialFiles
    /\ saved = <<>>

AppendToOutputFile(record) ==
    /\ Len(saved) < MaxSaves
    /\ output_file' = append_to_output_file(output_file, record)
    /\ saved' = Append(saved, record)
    /\ UNCHANGED <<csv, documents, inverted_index, pc, op, query, top_n, cutoff,
                   fuzzy, document_type, extracted_mentions, idx, pending,
                   sorted_candidates, matches, value, weights, result, lifecycle,
                   get_call, chunk_call>>

SaveProcessedRecord(record) ==
    /\ Len(saved) < MaxSaves
    /\ output_file' = save_processed_record(record, output_file)
    /\ saved' = Append(saved, record)
    /\ UNCHANGED <<csv, documents, inverted_index, pc, op, query, top_n, cutoff,
                   fuzzy, document_type, extracted_mentions, idx, pending,
                   sorted_candidates, matches, value, weights, result, lifecycle,
                   get_call, chunk_call>>

OutputNext ==
    \/ \E record \in OutputRecords : AppendToOutputFile(record)
    \/ \E record \in OutputRecords : SaveProcessedRecord(record)

OutputSpec == OutputInit /\ [][OutputNext]_vars

(***************************************************************************)
(* The two mention extractors called on their own                          *)
(***************************************************************************)
\* a citation whose descriptive text names an issuing body
IssuerKeywords == {<<"T","h","ô","n","g"," ","t","ư">>, <<"N","g","h","ị"," ","dd","ị","n","h"," ","9","1">>}
IssuerBodies == {<<"b","ộ"," ","t","à","i"," ","c","h","í","n","h">>,
                 <<"B","ộ"," ","T","à","i"," ","c","h","í","n","h">>,
                 <<"n","g","â","n"," ","h","à","n","g"," ","n","h","à"," ","n","ư","ớ","c">>}
IssuerTexts ==
    {kw \o <<" ">> \o body \o y :
        kw \in IssuerKeywords, body \in IssuerBodies, y \in Years}

\* texts of several sentences, with and without a keyword
BoundaryTexts ==
    {<<"L","u","ậ","t"," ","?"," ","2","0","1","5">>,
     <<"L","u","ậ","t"," ","."," ","9","1">>,
     <<"H","ồ"," ","s","ơ","."," ","L","u","ậ","t"," ","9","1","."," ","H","ồ"," ","s","ơ">>,
     <<"H","ồ"," ","s","ơ","."," ","H","ồ"," ","s","ơ">>,
     <<"L","u","ậ","t"," ","9","1"," ","a"," ","2","0","1","5","!"," ","N","g","h","ị"," ","dd","ị","n","h"," ","9","1"," ","a"," ","2","0","1","5">>}

\* texts that cite the same document several times
RepeatedCitations ==
    {<<"L","u","ậ","t"," ","9","1","/","2","0","1","5"," ","v","à"," ","L","u","ậ","t"," ","9","1","/","2","0","1","5">>,
     <<"L","u","ậ","t"," ","a"," ","2","0","1","5","."," ","L","u","ậ","t"," ","a"," ","2","0","1","5","."," ","L","u","ậ","t"," ","a"," ","2","0","1","5">>,
     <<"N","g","h","ị"," ","dd","ị","n","h"," ","9","1","/","2","0","1","5","/","N","D","-","C","P",","," ","L","u","ậ","t"," ","9","1","/","2","0","1","5",","," ","N","g","h","ị"," ","dd","ị","n","h"," ","9","1","/","2","0","1","5","/","N","D","-","C","P">>}

ExtractTexts == Queries \cup IssuerTexts \cup BoundaryTexts \cup RepeatedCitations
PartialTexts == RetrieverQueries \cup RepeatedCitations

ExtractInit ==
    /\ csv = Csv_full
    /\ documents = load_documents(csv)
    /\ inverted_index = EmptyDict
    /\ NoSearchCall
    /\ NoLifecycle
    /\ get_call = NoCall
    /\ chunk_call = NoChunkCall
    /\ NoOutput

\* CombinedDocumentSearch.extract_document_mentions(text)
ExtractMentions(text) ==
    /\ pc = "idle"
    /\ pc' = "done"
    /\ op' = "extract_document_mentions"
    /\ query' = text
    /\ extracted_mentions' = extract_document_mentions(text)
    /\ UNCHANGED <<others, registry, top_n, cutoff, fuzzy, document_type, idx,
                   pending, sorted_candidates, matches, value, weights, result>>

\* DocRetriever.match_documents_comprehensive(text, ...) up to
\* `mentions.add(full_mention)`: the set of mentions
ExtractPartialMentions(text) ==
    /\ pc = "idle"
    /\ pc' = "done"
    /\ op' = "partial_mentions"
    /\ query' = text
    /\ pending' = partial_mentions(normalize_text(text), 1)
    /\ UNCHANGED <<others, registry, top_n, cutoff, fuzzy, document_type, idx,
                   extracted_mentions, sorted_candidates, matches, value, weights,
                   result>>

ExtractNext ==
    \/ \E text \in ExtractTexts : ExtractMentions(text)
    \/ \E text \in PartialTexts : ExtractPartialMentions(text)
    \/ Return

ExtractSpec == ExtractInit /\ [][ExtractNext]_vars

(***************************************************************************)
(* The trigram query of match_documents_comprehensive on its own           *)
(***************************************************************************)
\* the two editions indexed in the other order
Csv_editions_reversed ==
    [columns |-> AllColumns, numeric |-> {},
     rows |-> <<Row_civil_code_2005, Row_civil_code>>]

IndexedRegistries == {Csv_full, Csv_editions, Csv_editions_reversed}
TrigramTexts == RetrieverQueries \cup TitleQueries

TrigramInit ==
    /\ csv \in IndexedRegistries
    /\ documents = load_documents(csv)
    /\ inverted_index = build_trigram_index(csv)
    /\ NoSearchCall
    /\ NoLifecycle
    /\ get_call = NoCall
    /\ chunk_call = NoChunkCall
    /\ NoOutput

\* match_documents_comprehensive(text, inverted_index, ...) up to
\* sorted_candidates
TrigramQuery(text) ==
    /\ pc = "idle"
    /\ pc' = "done"
    /\ op' = "trigram_query"
    /\ query' = text
    /\ sorted_candidates' =
          sorted_candidates_of(normalize_text(text), inverted_index)
    /\ UNCHANGED <<others, registry, top_n, cutoff, fuzzy, document_type, idx,
                   extracted_mentions, pending, matches, value, weights, result>>

TrigramNext ==
    \/ \E text \in TrigramTexts : TrigramQuery(text)
    \/ Return

TrigramSpec == TrigramInit /\ [][TrigramNext]_vars

(***************************************************************************)
(* match_documents called with its fuzzy argument                          *)
(***************************************************************************)
\* mentions whose number is, or is close to, a number of the registry
FuzzyNumbers == {<<"9","1">>, <<"9","1","1">>, <<"9","2">>}
FuzzyValues ==
    [document_type : {<<>>, T_luat}, document_number : FuzzyNumbers,
     issue_year : ArgYears, issuer_body : {<<>>}, extra_info : {<<>>}]

\* match_documents(mention, ..., top_n=n, fuzzy=f, cutoff=c): the body never
\* reads fuzzy
MatchDocumentsFuzzy(v, n, f, c) ==
    /\ pc = "idle"
    /\ op' = "match_documents"
    /\ value' = v
    /\ weights' = dynamic_weights(v)
    /\ top_n' = n
    /\ fuzzy' = f
    /\ cutoff' = c
    /\ LET r == match_documents(documents, v, n, c)
       IN IF r.raised
          THEN /\ pc' = "raised"
               /\ UNCHANGED <<matches, result>>
          ELSE /\ pc' = "done"
               /\ matches' = (ArgMention :> r.list)
               /\ result' = matches'
    /\ UNCHANGED <<others, registry, query, document_type, extracted_mentions,
                   idx, pending, sorted_candidates>>

FuzzyNext ==
    \/ \E v \in FuzzyValues, n \in TopNs, f \in BOOLEAN, c \in Cutoffs :
          MatchDocumentsFuzzy(v, n, f, c)
    \/ Return

FuzzySpec == Init /\ [][FuzzyNext]_vars

(***************************************************************************)
(* InputProcessor._chunk_text called on its own                            *)
(***************************************************************************)
ChunkInit ==
    /\ csv = Csv_full
    /\ documents = load_documents(csv)
    /\ inverted_index = EmptyDict
    /\ NoSearchCall
    /\ NoLifecycle
    /\ get_call = NoCall
    /\ chunk_call = NoChunkCall
    /\ NoOutput

ChunkText(text, max_words) ==
    /\ ~chunk_call.called
    /\ chunk_call' = [called |-> TRUE, text |-> text, max_words |-> max_words,
                      chunks |-> chunk_text(text, max_words)]
    /\ UNCHANGED <<csv, documents, inverted_index, pc, op, query, top_n, cutoff,
                   fuzzy, document_type, extracted_mentions, idx, pending,
                   sorted_candidates, matches, value, weights, result, lifecycle,
                   get_call, output_file, saved>>

\* the caller takes the chunks
ChunkReturn ==
    /\ chunk_call.called
    /\ chunk_call' = NoChunkCall
    /\ UNCHANGED <<csv, documents, inverted_index, pc, op, query, top_n, cutoff,
                   fuzzy, document_type, extracted_mentions, idx, pending,
                   sorted_candidates, matches, value, weights, result, lifecycle,
                   get_call, output_file, saved>>

ChunkNext ==
    \/ \E text \in ChunkTexts, max_words \in 1..MaxWords : ChunkText(text, max_words)
    \/ ChunkReturn

ChunkSpec == ChunkInit /\ [][ChunkNext]_vars

(***************************************************************************)
(* Properties                                                              *)
(***************************************************************************)
AnyPresent(v) == \E prop \in DOMAIN v : v[prop] # <<>>
Called(name) == op = name /\ pc \in {"done", "raised"}
Returned(name) == op = name /\ pc = "done"

\* the sum of the quotients as real numbers
WeightSum(w) ==
    FracAdd(w["document_type"],
        FracAdd(w["document_number"],
            FracAdd(w["issue_year"],
                FracAdd(w["issuer_body"], w["extra_info"]))))

\* a double in units of 2^-58 (every weight is a multiple of it)
Scaled(x) == IF x.m = BigZero THEN BigZero ELSE BigShift(x.m, x.e + 58)

\* the exact sum of the five stored doubles, in units of 2^-58
FloatWeightSum(w) ==
    BigAdd(Scaled(w["document_type"].float),
        BigAdd(Scaled(w["document_number"].float),
            BigAdd(Scaled(w["issue_year"].float),
                BigAdd(Scaled(w["issuer_body"].float),
                       Scaled(w["extra_info"].float)))))

\* C1, as stated: the dynamic weights that match_documents computes for a
\* mention sum to exactly 1 when at least one of the five fields is
\* present, and all five are 0 when none is present.
C1_SumExactlyOne ==
    IF AnyPresent(value)
    THEN FloatWeightSum(weights) = Scaled(from_int(1))
    ELSE \A prop \in DOMAIN weights : weights[prop].float = FloatZero

\* C1, amended: when at least one field is present the quotients
\* confidence / total sum to 1 as real numbers and the five doubles that
\* match_documents stores sum to 1 within 2^-52; all five are 0.0 when no
\* field is present.
C1_WeightsSumToOne ==
    IF AnyPresent(value)
    THEN /\ WeightSum(weights).num = WeightSum(weights).den
         /\ BigGE(BigAdd(FloatWeightSum(weights), BigShift(BigOne, 6)),
                  Scaled(from_int(1)))
         /\ BigGE(BigAdd(Scaled(from_int(1)), BigShift(BigOne, 6)),
                  FloatWeightSum(weights))
    ELSE \A prop \in DOMAIN weights : weights[prop].float = FloatZero

\* C1 witness: a direct call whose mention has the type, the year and a
\* description present (0.8/2.1, 0.7/2.1 and 0.6/2.1 are all rounded)
C1_Witness ==
    /\ Called("match_documents")
    /\ value["document_type"] # <<>>
    /\ value["issue_year"] # <<>>
    /\ value["extra_info"] # <<>>
    /\ value["document_number"] = <<>>

\* sorted(..., reverse=True) left the scores in non-increasing order
NonIncreasing(list) ==
    \A i \in 1..(Len(list) - 1) : FracGE(list[i][3], list[i + 1][3])

\* C2: every candidate list of the mapping that search returns
\* (CombinedDocumentSearch.search and DocRetriever.search) has at most top_n
\* entries, and every scored list is in non-increasing score order.
C2_ListsCappedAndSorted ==
    (Returned("search") \/ Returned("dr_search")) =>
        \A k \in DOMAIN result :
            /\ Len(result[k]) <= top_n
            /\ (op = "search" => NonIncreasing(result[k]))

\* the rows that passed the prefilter of the latest match_documents call
Prefiltered(doc) ==
    \E j \in 1..Len(potential_matches(documents, value)) :
        potential_matches(documents, value)[j] = doc

\* the row is among the candidates of a list (Document_ID is unique)
Emitted(doc, list) ==
    \E i \in 1..Len(list) : list[i][2] = doc["Document_ID"]

\* C3: every candidate that match_documents (and so search) emits has a
\* score >= the cutoff passed in, and a prefiltered row whose score is below
\* the cutoff is not in the returned list.
C3_ScoresReachCutoff ==
    /\ op \in {"search", "match_documents"} =>
          \A k \in DOMAIN matches : \A i \in 1..Len(matches[k]) :
              FracGE(matches[k][i][3], cutoff)
    /\ Returned("match_documents") =>
          \A r \in 1..Len(documents.rows) :
              (/\ Prefiltered(documents.rows[r])
               /\ FracGT(cutoff, match_score(value, documents.rows[r])))
                  => ~Emitted(documents.rows[r], result[ArgMention])

\* C3 witness: a direct call that emitted one row and dropped another one
\* that had passed the prefilter
C3_Witness ==
    /\ Returned("match_documents")
    /\ result[ArgMention] # <<>>
    /\ \E r \in 1..Len(documents.rows) :
          /\ Prefiltered(documents.rows[r])
          /\ FracGT(cutoff, match_score(value, documents.rows[r]))

\* the row disagrees with the mention on a structured field
FieldMismatch(prop, v, doc) ==
    IF prop = "document_type"
    THEN lower(doc[prop]) \notin
            (IF lower(v) \in LawClass THEN LawClass ELSE {lower(v)})
    ELSE lower(doc[prop]) # lower(v)

\* 1 - cutoff
Margin == Frac(cutoff.den - cutoff.num, cutoff.den)

\* C4: a row that mismatches the mention on a present structured field
\* whose dynamic weight alone exceeds 1 - cutoff is never emitted by
\* match_documents at that cutoff.
C4_PenaltyCorrectness ==
    Returned("match_documents") =>
        \A r \in 1..Len(documents.rows) : \A prop \in Structured :
            (/\ value[prop] # <<>>
             /\ FieldMismatch(prop, value[prop], documents.rows[r])
             /\ FracGT(weights[prop], Margin))
                => ~Emitted(documents.rows[r], result[ArgMention])

\* C4 witness: a direct call that emitted a row while another row
\* mismatched on a present field heavier than the margin
C4_Witness ==
    /\ Returned("match_documents")
    /\ result[ArgMention] # <<>>
    /\ \E r \in 1..Len(documents.rows) : \E prop \in Structured :
          /\ value[prop] # <<>>
          /\ FieldMismatch(prop, value[prop], documents.rows[r])
          /\ FracGT(weights[prop], Margin)

\* the document types the extractor can produce, and one outside its grammar
KnownTypes ==
    LawClass \cup {T_nghi_dinh, T_thong_tu, T_thong_tu \o T_lien_tich,
                   T_nghi_quyet, T_quyet_dinh, T_luat \o <<" ">> \o T_bo_luat,
                   <<"h","i","ế","n"," ","p","h","á","p">>}

RowOfType(t) == [c \in AllColumns |-> IF c = "document_type" THEN t ELSE <<>>]

\* C5: within {luật, bộ luật, pháp lệnh} the expansion of every member is
\* the whole class (so membership is symmetric and transitive), a type
\* outside the class expands to itself only, a mention of type a matches a
\* row of type b exactly when a mention of type b matches a row of type a,
\* and every row that match_documents returns for a typed mention has a
\* type whose own expansion contains the mention's type.
C5_TypeClassSymmetric ==
    /\ \A a \in LawClass : equivalent_document_types(a) = LawClass
    /\ \A a, b \in LawClass :
          b \in equivalent_document_types(a) <=> a \in equivalent_document_types(b)
    /\ \A t \in KnownTypes \ LawClass : equivalent_document_types(t) = {t}
    /\ \A a, b \in KnownTypes :
          property_match("document_type", a, RowOfType(b))
              <=> property_match("document_type", b, RowOfType(a))
    /\ (Returned("match_documents") /\ value["document_type"] # <<>>) =>
          \A r \in 1..Len(documents.rows) :
              Emitted(documents.rows[r], result[ArgMention]) =>
                  lower(value["document_type"]) \in
                      equivalent_document_types(
                          lower(documents.rows[r]["document_type"]))

\* C5 witness: a mention of type luật returned the row of the civil code,
\* whose type is bộ luật
C5_Witness ==
    /\ Returned("match_documents")
    /\ value["document_type"] = T_luat
    /\ \E r \in 1..Len(documents.rows) :
          /\ documents.rows[r]["document_type"] = T_bo_luat
          /\ Emitted(documents.rows[r], result[ArgMention])

ScenarioText == <<"DD","i","ề","u"," ","6","4","0"," ","B","ộ"," ","l","u","ậ","t"," ","d","â","n"," ","s","ự"," ","2","0","1","5">>
ScenarioName == <<"b","ộ"," ","l","u","ậ","t"," ","d","â","n"," ","s","ự"," ","2","0","1","5">>
ScenarioId == <<"9","1","/","2","0","1","5","/","q","h","1","3">>

\* C6: for the text 'Điều 640 Bộ luật dân sự 2015' and a registry holding
\* the row of the civil code, the extractor yields a mention of type
\* 'bộ luật' with issue_year '2015', and search returns that row as the
\* first candidate of that mention with a score >= 0.5.
C6_CivilCodeScenario ==
    (Returned("search") /\ query = ScenarioText) =>
        \E i \in 1..Len(extracted_mentions) :
            /\ extracted_mentions[i].document_type = T_bo_luat
            /\ extracted_mentions[i].issue_year = <<"2","0","1","5">>
            /\ result[extracted_mentions[i].mention] # <<>>
            /\ result[extracted_mentions[i].mention][1][1] = ScenarioName
            /\ result[extracted_mentions[i].mention][1][2] = ScenarioId
            /\ FracGE(result[extracted_mentions[i].mention][1][3], Frac(1, 2))

\* the keywords of the mention grammar among the input keywords
TypeKeywords == {kw \in Keywords : lower(kw) \in KnownTypes}

\* C7: for a sentence keyword + descriptive words + 4-digit year, the
\* extractor yields a mention whose issue_year is that year, whose
\* extra_info is the whole descriptive text, and whose document_number is
\* not the year.
C7_TrailingYear ==
    \A kw \in TypeKeywords, w \in Words \ {<<>>}, y \in Years \ {<<>>} :
        (op = "search" /\ query = kw \o w \o y) =>
            \E i \in 1..Len(extracted_mentions) :
                /\ extracted_mentions[i].document_type = lower(kw)
                /\ extracted_mentions[i].issue_year = strip(y)
                /\ extracted_mentions[i].extra_info = strip(w)
                /\ extracted_mentions[i].document_number # strip(y)

NumberYearPair == <<" ","9","1","/","2","0","1","5">>

\* C8: when the keyword is immediately followed by the pair 91/2015, the
\* mention's issue_year is 2015, whatever free-standing year comes later
\* in the sentence.
C8_PairYearWins ==
    \A kw \in TypeKeywords, w \in Words, y \in Years :
        (op = "search" /\ query = kw \o NumberYearPair \o w \o y) =>
            \E i \in 1..Len(extracted_mentions) :
                /\ extracted_mentions[i].document_type = lower(kw)
                /\ extracted_mentions[i].issue_year = <<"2","0","1","5">>

\* the extractor of the running search call found no mention
NoMentionFound ==
    \/ op = "search" /\ extracted_mentions = <<>>
    \/ op = "dr_search" /\ partial_mentions(normalize_text(query), 1) = {}

IsTrigramKey(k) ==
    /\ Len(k) > Len(TrigramKeyPrefix)
    /\ SubSeq(k, 1, Len(TrigramKeyPrefix)) = TrigramKeyPrefix

TrigramKeyId(k) == SubSeq(k, Len(TrigramKeyPrefix) + 1, Len(k))

\* the document ids that some posting list of the index holds
IndexedIds(index) ==
    UNION {{index[t][j] : j \in 1..Len(index[t])} : t \in DOMAIN index}

\* C9: when the extractor finds no mention, every entry of the mapping that
\* search returns is a trigram-fallback entry for a document id supplied by
\* the trigram index; with an empty index the mapping is empty.
C9_EmptyUnlessFallback ==
    (pc = "done" /\ NoMentionFound) =>
        /\ \A k \in DOMAIN result :
              /\ IsTrigramKey(k)
              /\ TrigramKeyId(k) \in IndexedIds(inverted_index)
              /\ result[k] # <<>>
        /\ inverted_index = EmptyDict => result = EmptyDict

\* C9 witness: DocRetriever found no mention and returned a trigram
\* candidate
C9_Witness ==
    /\ Returned("dr_search")
    /\ NoMentionFound
    /\ result # EmptyDict

\* the other case of C9: no keyword, empty index, empty mapping
C9_EmptyIndexCase ==
    /\ pc = "done"
    /\ NoMentionFound
    /\ \A kw \in TypeKeywords : ~Contains(query, kw)
    /\ query # <<>>
    /\ inverted_index = EmptyDict
    /\ result = EmptyDict

\* the ranked trigram candidates of the whole input text, cut to top_n
ExpectedFallback ==
    take(sorted_candidates_of(normalize_text(query), inverted_index), top_n)

\* C10: search uses the trigram fallback iff no mention has a candidate:
\* then the top-N document ids of the trigram index for the whole text are
\* returned under trigram-candidate keys (and nothing else is), and when
\* some mention has a candidate the mapping holds no trigram-candidate key.
C10_FallbackIffNoCandidate ==
    (pc = "done" /\ op \in {"search", "dr_search"}) =>
        IF \A k \in DOMAIN result : ~IsTrigramKey(k) => result[k] = <<>>
        THEN /\ \A j \in 1..Len(ExpectedFallback) :
                    (\E r \in 1..Len(csv.rows) :
                        lower(csv.rows[r]["Document_ID"])
                            = lower(ExpectedFallback[j][1]))
                    => TrigramKeyPrefix \o ExpectedFallback[j][1] \in DOMAIN result
             /\ \A k \in DOMAIN result :
                    IsTrigramKey(k) =>
                        \E j \in 1..Len(ExpectedFallback) :
                            TrigramKeyId(k) = ExpectedFallback[j][1]
        ELSE \A k \in DOMAIN result : ~IsTrigramKey(k)

\* the searcher's index was built from the registry that the searcher holds:
\* by create_token_database, or as the trigram index of section 4.3
IndexOfOwnRegistry ==
    \/ searcher.token_db = create_token_database(full_names(searcher.documents))
    \/ searcher.token_db = build_trigram_index(searcher.documents)

\* the rows of the searcher's registry whose title is the searched text, a
\* title of at least three words
TitleRows ==
    {r \in 1..Len(searcher.documents.rows) :
        /\ searcher.documents.rows[r]["Full Name"] = outcome.query
        /\ Len(word_tokenize(normalize_text(outcome.query))) >= 3}

\* C11: a trigram query (DocRetriever.search with top_n = 1) whose text is
\* the title of a registry document returns that document's id as the
\* first-ranked trigram candidate, also when another title of the registry
\* contains the same trigrams.
C11_TitleRanksFirst ==
    (/\ searcher.cls = "DocRetriever"
     /\ outcome.searched /\ ~outcome.raised
     /\ IndexOfOwnRegistry) =>
        \A r \in TitleRows :
            (TrigramKeyPrefix \o searcher.documents.rows[r]["Document_ID"])
                \in DOMAIN outcome.result

\* C12: a construction that finds the cache file absent builds the token
\* index from the registry as it is now and writes it to the cache path; a
\* construction that finds the cache file present loads the cached index
\* unchanged, whatever the registry now contains, and never rewrites the
\* file.
C12_CacheLoadOrCreate ==
    construction.cls # "none" =>
        /\ (construction.cache_before.state = "absent" /\ ~construction.raised) =>
              /\ searcher.token_db = create_token_database(
                                         full_names(construction.registry_before.table))
              /\ construction.cache_after = Cached(searcher.token_db)
        /\ construction.cache_before.state # "absent" =>
              /\ construction.cache_after = construction.cache_before
              /\ ~construction.raised =>
                    searcher.token_db = construction.cache_before.db

\* C12 witness: a searcher constructed on a cache file that an earlier
\* construction wrote from another registry
C12_Witness ==
    /\ construction.cls # "none"
    /\ ~construction.raised
    /\ construction.cache_before.state = "valid"
    /\ construction.registry_before.readable
    /\ searcher.token_db = construction.cache_before.db
    /\ searcher.token_db # create_token_database(
                               full_names(construction.registry_before.table))
    /\ \E file \in RegistryFiles :
          file.readable /\ searcher.token_db = create_token_database(full_names(file.table))

\* C13: when the registry file or the cache file is unreadable or
\* unparsable, constructing a searcher (CombinedDocumentSearch or
\* DocRetriever) raises to the caller and leaves no searcher to search with,
\* whether or not a cache file is present.
C13_LoadErrorsAreFatal ==
    (/\ construction.cls # "none"
     /\ \/ ~construction.registry_before.readable
        \/ construction.cache_before.state = "corrupt") =>
        /\ construction.raised
        /\ searcher.cls = "none"

\* the id as the mention writes it: the number/year/suffix after the keyword
CitedId(mention) == split(mention)[Len(split(mention))]

\* the rows of the searcher's registry whose Document_ID equals the id cited
\* by the mention up to letter case and surrounding whitespace
RowsCitedBy(mention) ==
    {r \in 1..Len(searcher.documents.rows) :
        strip(lower(searcher.documents.rows[r]["Document_ID"])) = CitedId(mention)}

\* C14: after load_documents every value of the text columns is in
\* lowercase-trimmed form (normalising it again changes nothing), and a
\* registry Document_ID that differs from a cited id only in letter case and
\* surrounding whitespace compares equal to it, so the cited row is among
\* the candidates of the mention.
C14_NormalizedComparison ==
    /\ searcher.cls = "CombinedDocumentSearch" =>
          \A r \in 1..Len(searcher.documents.rows) :
              \A c \in text_columns \cap searcher.documents.columns :
                  strip(lower(searcher.documents.rows[r][c]))
                      = searcher.documents.rows[r][c]
    /\ (searcher.cls = "DocRetriever" /\ outcome.searched /\ ~outcome.raised) =>
          \A mention \in partial_mentions(normalize_text(outcome.query), 1) :
              \A r \in RowsCitedBy(mention) :
                  /\ mention \in DOMAIN outcome.result
                  /\ \E j \in 1..Len(outcome.result[mention]) :
                        outcome.result[mention][j]
                            = <<searcher.documents.rows[r]["Full Name"],
                                searcher.documents.rows[r]["Document_ID"]>>

\* the row agrees with the mention on every structured field that the
\* mention has
AgreesOnPresent(v, doc) ==
    \A prop \in Structured : v[prop] # <<>> => ~FieldMismatch(prop, v[prop], doc)

\* the rows that qualify for the latest match_documents call
QualifyingRows ==
    {r \in 1..Len(documents.rows) :
        /\ AgreesOnPresent(value, documents.rows[r])
        /\ FracGE(match_score(value, documents.rows[r]), cutoff)}

\* a field that the mention has cannot be compared with its column, or the
\* extra_info that the mention has cannot be compared with a title
PresentFieldUnusable ==
    \/ \E prop \in Structured : value[prop] # <<>> /\ column_raises(documents, prop)
    \/ /\ value["extra_info"] # <<>>
       /\ \/ column_raises(documents, "Full Name")
          \/ \E r \in 1..Len(documents.rows) :
                /\ AgreesOnPresent(value, documents.rows[r])
                /\ empty_vocabulary(lower(value["extra_info"]),
                                    lower(documents.rows[r]["Full Name"]))

\* the registry lacks a column that every result tuple is built from
ResultColumnsMissing ==
    ~({"Full Name", "Document_ID"} \subseteq documents.columns)

\* C15: match_documents never raises because a mention field is absent (an
\* exception always comes from a field the mention has or from the columns
\* of the result tuples); an absent field
\* imposes no constraint, so the candidates are the rows that agree on the
\* present fields and reach the cutoff, up to top_n; and when no row
\* qualifies the list of the mention is empty, not an error.
C15_AbsentFieldsNeverRaise ==
    /\ (Called("match_documents") /\ pc = "raised") =>
          (PresentFieldUnusable \/ ResultColumnsMissing)
    /\ Returned("match_documents") =>
          /\ \A i \in 1..Len(result[ArgMention]) :
                \E r \in QualifyingRows :
                    result[ArgMention][i][2] = documents.rows[r]["Document_ID"]
          /\ Len(result[ArgMention])
                = (IF Cardinality(QualifyingRows) < top_n
                   THEN Cardinality(QualifyingRows) ELSE top_n)
    /\ (Called("match_documents") /\ ~PresentFieldUnusable /\ ~ResultColumnsMissing)
          => pc = "done"

\* C15 witness: a mention without number against a registry without the
\* document_number column: the call returns candidates
C15_Witness ==
    /\ Returned("match_documents")
    /\ value["document_number"] = <<>>
    /\ value["document_type"] # <<>>
    /\ "document_number" \notin documents.columns
    /\ result[ArgMention] # <<>>

\* none of the five fields of the mention is present
Degenerate(v) == \A prop \in DOMAIN v : v[prop] = <<>>

\* C16: a mention with none of the five fields present gets score 0 against
\* every registry row, and for a cutoff above 0 match_documents returns the
\* empty candidate list for it without raising.
C16_DegenerateMention ==
    (Called("match_documents") /\ Degenerate(value)) =>
        /\ \A r \in 1..Len(documents.rows) :
              match_score(value, documents.rows[r]).num = 0
        /\ \A prop \in DOMAIN weights : weights[prop].num = 0
        /\ FracGT(cutoff, Frac(0, 1)) =>
              (pc = "done" /\ result[ArgMention] = <<>>)

\* C16 witness: match_documents has returned for a mention without fields,
\* on a registry with rows
C16_Witness ==
    /\ Returned("match_documents")
    /\ Degenerate(value)
    /\ documents.rows # <<>>
    /\ FracGT(cutoff, Frac(0, 1))

\* C17: once the registry has loaded (a missing expected column included),
\* search completes without raising for every input text: a failure while
\* matching one mention does not abort the call.
C17_SearchNeverRaises ==
    op = "search" => pc # "raised"

\* the reference lookup from the i-th index on: an index step succeeds only
\* on a list with an integer index inside 0..length-1
RECURSIVE reference_walk(_, _, _, _)
reference_walk(current, indices, i, d) ==
    IF i > Len(indices) THEN current
    ELSE IF current.kind # "list" THEN d
    ELSE IF indices[i].kind # "int" THEN d
    ELSE IF indices[i].int < 0 \/ indices[i].int >= Len(current.items) THEN d
    ELSE reference_walk(current.items[indices[i].int + 1], indices, i + 1, d)

\* the reference lookup: d when the attribute is missing or a step fails
reference_lookup(record, key, indices, d) ==
    IF key \in DOMAIN record
    THEN reference_walk(record[key], indices, 1, d)
    ELSE d

\* C18: Record.get(key, *indices, default=d) equals the reference lookup:
\* the value reached when the attribute exists and every index step
\* succeeds, d when the attribute is missing or any step fails.
C18_GetEqualsReference ==
    get_call.called =>
        get_call.returned = reference_lookup(get_call.record, get_call.key,
                                             get_call.args, get_call.default)

\* the records that a call can store: they carry an id and can be encoded
StoredCalls == SelectSeq(saved, LAMBDA rec : rec.id.kind # "none" /\ rec.serializable)

\* the records that a reader of the output file gets
FileRecords ==
    IF output_file.exists THEN parse_records(output_file.data) ELSE <<>>

\* the position of the first call that saved the id
FirstSaved(id) ==
    CHOOSE k \in 1..Len(StoredCalls) :
        /\ StoredCalls[k].id = id
        /\ \A j \in 1..(k - 1) : StoredCalls[j].id # id

\* C19: after any sequence of append_to_output_file / save_processed_record
\* calls on a file that started missing or empty, the file holds at most one
\* record per id, the record stored for an id is the one most recently saved
\* with that id, and the records keep the order in which their ids were
\* first saved.
C19_OneRecordPerId ==
    /\ \A i \in 1..Len(FileRecords) : ~FileRecords[i].error
    /\ \A i, j \in 1..Len(FileRecords) :
          FileRecords[i].id = FileRecords[j].id => i = j
    /\ \A k \in 1..Len(StoredCalls) :
          \E i \in 1..Len(FileRecords) : FileRecords[i].id = StoredCalls[k].id
    /\ \A i \in 1..Len(FileRecords) :
          \E k \in 1..Len(StoredCalls) :
              /\ StoredCalls[k].id = FileRecords[i].id
              /\ StoredCalls[k].content = FileRecords[i].content
              /\ \A j \in (k + 1)..Len(StoredCalls) :
                    StoredCalls[j].id # StoredCalls[k].id
    /\ \A i, j \in 1..Len(FileRecords) :
          i < j => FirstSaved(FileRecords[i].id) < FirstSaved(FileRecords[j].id)

\* C20: searching writes no shared state: after any number of search calls
\* the searcher (its registry and its token index) is identical to what it
\* was when its construction finished.
C20_SearchWritesNothing ==
    searcher = built

\* the registry rows that agree with the mention on every present
\* structured field, in registry order
AgreeingRows ==
    SelectSeq(documents.rows, LAMBDA doc : AgreesOnPresent(value, doc))

\* C21: the rows that match_documents scores are exactly the registry rows
\* that agree with the mention on every present structured field (the type
\* through its equivalence class); an absent field excludes no row, so a
\* mention without structured fields has every registry row scored.
C21_PrefilterExact ==
    Returned("match_documents") =>
        /\ potential_matches(documents, value) = AgreeingRows
        /\ (\A prop \in Structured : value[prop] = <<>>) =>
              potential_matches(documents, value) = documents.rows

\* C21 witness: a call with a type of the law class and a number returned;
\* the prefilter kept a row of another type of the class and dropped a row
C21_Witness ==
    /\ Returned("match_documents")
    /\ value["document_type"] # <<>>
    /\ value["document_number"] # <<>>
    /\ \E j \in 1..Len(potential_matches(documents, value)) :
          lower(potential_matches(documents, value)[j]["document_type"])
              # lower(value["document_type"])
    /\ Len(potential_matches(documents, value)) < Len(documents.rows)

\* the penalty was applied to the row: a field present in the mention
\* mismatches the row
Penalised(v, doc) ==
    \E prop \in Structured : v[prop] # <<>> /\ FieldMismatch(prop, v[prop], doc)

\* match_documents has scored a row with a penalty and a score below 0
NegativeScored ==
    /\ Returned("match_documents")
    /\ \E j \in 1..Len(potential_matches(documents, value)) :
          /\ Penalised(value, potential_matches(documents, value)[j])
          /\ ~FracGE(match_score(value, potential_matches(documents, value)[j]),
                     Frac(0, 1))

Extracted == op = "extract_document_mentions" /\ pc = "done"

\* the descriptive text of a citation of the text begins with the body name
Described(body) ==
    \E kw \in IssuerKeywords :
        Contains(lower(query), lower(kw) \o <<" ">> \o body)

\* C23: whenever the descriptive text of a mention contains a known
\* issuing-body name, in any letter case, the extracted mention has
\* issuer_body equal to the abbreviation of the body and its extra_info no
\* longer contains the name; when no known name occurs, issuer_body is empty.
C23_IssuerRelocated ==
    Extracted =>
        \A i \in 1..Len(issuer_mapping) :
            IF Described(issuer_mapping[i][1])
            THEN \E k \in 1..Len(extracted_mentions) :
                    /\ extracted_mentions[k].issuer_body = issuer_mapping[i][2]
                    /\ ~Contains(lower(extracted_mentions[k].extra_info),
                                 issuer_mapping[i][1])
            ELSE Contains(lower(query), issuer_mapping[i][1])
                 \/ \A k \in 1..Len(extracted_mentions) :
                        extracted_mentions[k].issuer_body # issuer_mapping[i][2]

\* the sentences of the text handed to the extractor
QuerySentences == sent_tokenize(query)

\* the text holds a document-type keyword of the pattern, in any case
HasKeyword(text) == \E t \in KnownTypes : Contains(lower(text), t)

\* C24: the span of every extracted mention, with its keyword, number and
\* year, lies inside a single sentence of the segmented input, and a
\* sentence without a document-type keyword contributes no mention; the
\* extraction returns without error.
C24_MentionsPerSentence ==
    (op = "extract_document_mentions" /\ pc # "idle") =>
        /\ pc = "done"
        /\ \A k \in 1..Len(extracted_mentions) :
              /\ \E i \in 1..Len(QuerySentences) :
                    /\ Contains(QuerySentences[i], extracted_mentions[k].mention)
                    /\ HasKeyword(QuerySentences[i])
              /\ HasKeyword(extracted_mentions[k].mention)
              /\ Contains(extracted_mentions[k].mention,
                          extracted_mentions[k].document_number)
              /\ Contains(extracted_mentions[k].mention,
                          extracted_mentions[k].issue_year)
        /\ (\A i \in 1..Len(QuerySentences) : ~HasKeyword(QuerySentences[i]))
              => extracted_mentions = <<>>

\* C24 witness: a text of several sentences, one of them without keyword,
\* from which a mention was extracted whose sentence is followed by a
\* sentence that begins with a year
C24_Witness ==
    /\ Extracted
    /\ Len(QuerySentences) >= 2
    /\ \E i \in 1..Len(QuerySentences) : ~HasKeyword(QuerySentences[i])
    /\ \E k \in 1..Len(extracted_mentions) :
          /\ extracted_mentions[k].issue_year = <<>>
          /\ Contains(query, <<" ", "2", "0", "1", "5">>)

\* the mentions from the k-th on occur in the text one after another, the
\* k-th at or after position `from`
RECURSIVE InTextOrder(_, _, _, _)
InTextOrder(text, mentions, k, from) ==
    IF k > Len(mentions) THEN TRUE
    ELSE \E p \in from..(Len(text) + 1) :
            /\ OccursAt(text, p, mentions[k].mention)
            /\ \A q \in from..(p - 1) : ~OccursAt(text, q, mentions[k].mention)
            /\ InTextOrder(text, mentions, k + 1, p + Len(mentions[k].mention))

\* the citations that partial_pattern finds in the text, one per occurrence
RECURSIVE partial_occurrences(_, _)
partial_occurrences(s, p) ==
    IF p > Len(s) THEN <<>>
    ELSE IF partial_pattern_match(s, p).found
    THEN <<partial_pattern_match(s, p).group0>>
            \o partial_occurrences(s, partial_pattern_match(s, p).stop)
    ELSE partial_occurrences(s, p + 1)

\* C25: the extractors return their mentions in the order in which they
\* occur in the text and retain duplicates: a citation that occurs k times
\* yields k mentions.
C25_OrderedWithDuplicates ==
    /\ Extracted => InTextOrder(query, extracted_mentions, 1, 1)
    /\ (op = "partial_mentions" /\ pc = "done") =>
          Cardinality(pending)
              = Len(partial_occurrences(normalize_text(query), 1))

\* the trigrams of the text handed to the trigram query
QueryTrigrams == extract_trigrams(word_tokenize(normalize_text(query)))

\* the number of query trigrams whose posting list contains the id
HitCount(id) ==
    Cardinality({i \in 1..Len(QueryTrigrams) :
        /\ QueryTrigrams[i] \in DOMAIN inverted_index
        /\ \E j \in 1..Len(inverted_index[QueryTrigrams[i]]) :
              inverted_index[QueryTrigrams[i]][j] = id})

\* C26: a trigram query tallies for each document id the number of query
\* trigrams whose posting list contains it, and returns the ids sorted by
\* that count in descending order, ties broken by the lexical order of the
\* ids, so the result does not depend on the order of indexing.
C26_TrigramRanking ==
    (op = "trigram_query" /\ pc = "done") =>
        /\ \A j \in 1..Len(sorted_candidates) :
              sorted_candidates[j][2] = HitCount(sorted_candidates[j][1])
        /\ \A j, k \in 1..Len(sorted_candidates) :
              j < k =>
                \/ sorted_candidates[j][2] > sorted_candidates[k][2]
                \/ /\ sorted_candidates[j][2] = sorted_candidates[k][2]
                   /\ StrLess(sorted_candidates[j][1], sorted_candidates[k][1])

\* the default cutoff of difflib.get_close_matches
CloseMatchCutoff == Frac(3, 5)

\* a registry row whose number is a close match of the number of the
\* mention and which agrees with the mention on its other present fields
CloseRows ==
    {r \in 1..Len(documents.rows) :
        /\ FracGE(ratio(lower(documents.rows[r]["document_number"]),
                        lower(value["document_number"])), CloseMatchCutoff)
        /\ \A prop \in Structured \ {"document_number"} :
              value[prop] # <<>> =>
                  ~FieldMismatch(prop, value[prop], documents.rows[r])}

\* C27: when the prefilter yields no row and fuzzy matching is enabled,
\* match_documents looks up close matches of the document_number before
\* returning the empty list, so a row whose number is a close match is
\* returned; with fuzzy disabled the empty list is returned directly.
C27_FuzzyNumberLookup ==
    (/\ Returned("match_documents")
     /\ value["document_number"] # <<>>
     /\ potential_matches(documents, value) = <<>>) =>
        IF fuzzy /\ CloseRows # {}
        THEN \E i \in 1..Len(result[ArgMention]) : \E r \in CloseRows :
                result[ArgMention][i][2] = documents.rows[r]["Document_ID"]
        ELSE result[ArgMention] = <<>>

\* C28: every chunk returned by _chunk_text holds at most max_words words,
\* for every text, a text with one paragraph longer than max_words included.
C28_ChunksWithinMaxWords ==
    chunk_call.called =>
        \A i \in 1..Len(chunk_call.chunks) :
            word_count(chunk_call.chunks[i]) <= chunk_call.max_words

\* the mention has a structured field and no extra_info
StructuredOnly(v) ==
    /\ v["extra_info"] = <<>>
    /\ \E prop \in Structured : v[prop] # <<>>

\* C29 (as stated): for a mention with a structured field and no
\* extra_info, every prefiltered row receives score exactly 1.
C29_ScoreExactlyOne ==
    (Returned("match_documents") /\ StructuredOnly(value) /\ AgreeingRows # <<>>) =>
        Scaled(float_structured_score(value)) = Scaled(from_int(1))

\* C29 (amended): for such a mention every prefiltered row receives the
\* same score, which is 1 as a real number and within 2^-52 of 1 as the
\* double the loop accumulates; the candidates tie, and the returned list is
\* the first top_n prefiltered rows in registry order.
C29_StructuredOnlyTie ==
    (Returned("match_documents") /\ StructuredOnly(value)) =>
        /\ \A j \in 1..Len(AgreeingRows) :
              FracEQ(match_score(value, AgreeingRows[j]), Frac(1, 1))
        /\ BigGE(Scaled(from_int(1)), Scaled(float_structured_score(value)))
        /\ BigGE(BigAdd(Scaled(float_structured_score(value)), BigShift(BigOne, 6)),
                 Scaled(from_int(1)))
        /\ Len(result[ArgMention])
              = (IF Len(AgreeingRows) < top_n THEN Len(AgreeingRows) ELSE top_n)
        /\ \A i \in 1..Len(result[ArgMention]) :
              /\ result[ArgMention][i][2] = AgreeingRows[i]["Document_ID"]
              /\ FracEQ(result[ArgMention][i][3], Frac(1, 1))

\* C29 witness: a call for a mention with only a type returned the first of
\* several tied rows
C29_Witness ==
    /\ Returned("match_documents")
    /\ StructuredOnly(value)
    /\ Len(AgreeingRows) >= 2
    /\ top_n < Len(AgreeingRows)
    /\ result[ArgMention] # <<>>

\* C30: for a registry with unique Document_IDs, each candidate list of the
\* mapping that search returns holds any document id at most once, for every
\* top_n, also when the same mention text occurs several times in the input.
C30_NoRepeatedCandidate ==
    Returned("search") =>
        \A key \in DOMAIN result :
            \A i, j \in 1..Len(result[key]) :
                result[key][i][2] = result[key][j][2] => i = j

====
